---------------------------- MODULE Spec2Model ----------------------------
(***************************************************************************)
(* A model of the editing core of the miter terminal editor (src/miter.c): *)
(* the row store, the selection, the cursor set, the editing operations,   *)
(* the in-memory undo log and the key dispatcher.                          *)
(*                                                                         *)
(* The C program keeps its state in one global `struct editor_config       *)
(* editor`; the model keeps it in one record-valued variable `editor`      *)
(* whose fields carry the C names.  Every C function that changes the      *)
(* state is an operator from an editor record to an editor record, so a    *)
(* handler that calls other functions is the composition of their          *)
(* operators.  Positions are 0-based as in C; TLA+ sequences are 1-based,  *)
(* hence the +1 in every access.                                           *)
(*                                                                         *)
(* A text is a sequence of one-character strings; a line feed inside a     *)
(* clipboard or undo payload is the element LF.                            *)
(*                                                                         *)
(* Fields starting with g_ are history (ghost) fields: the C program does  *)
(* not have them, they record what happened so that properties can speak   *)
(* about it.  The field `crashed` records that the C code performed an     *)
(* out-of-bounds memory access (memmove/memcpy with a negative length,     *)
(* indexing past the row array); the model stops there.                    *)
(***************************************************************************)
EXTENDS Integers, Sequences, FiniteSets, TLC

VARIABLES
    editor,             \* struct editor_config editor
    clock,              \* CLOCK_MONOTONIC, in milliseconds
    clipboard_content,  \* static char *clipboard_content
    quit_times,         \* static int quit_times of editor_process_keypress
    exited,             \* the process called exit(0)
    last_key,           \* the key editor_process_keypress handled last
    steps,              \* number of key events handled so far
    hist,               \* history of the session, read only by the properties
    stdin,              \* bytes the terminal has sent and read() has not returned yet
    window_resize_pending,  \* volatile sig_atomic_t window_resize_pending
    pc,                 \* where main is in its loop
    keycode             \* int key of editor_process_keypress: what editor_read_key returned

vars == <<editor, clock, clipboard_content, quit_times, exited, last_key, steps, hist,
          stdin, window_resize_pending, pc, keycode>>

\* what the handling of a key that is given, not read, leaves alone
process == <<stdin, window_resize_pending, pc, keycode>>

---------------------------------------------------------------------------
(* Program constants *)

MITER_QUIT_TIMES == 3
UNDO_GROUP_TIMEOUT_MS == 500
UNDO_MAX_ENTRIES == 10000
UNDO_INITIAL_CAPACITY == 256
INDENT_SIZE == 4
INDENT_BUF_SIZE == 256

MENU_COUNT == 4
\* menus[]: item_count of File, Edit, View, Help and the indices of their separators
MenuItemCount == <<5, 9, 4, 1>>
MenuSeparators == <<{3}, {2, 6}, {2}, {}>>

UNDO_CHAR_INSERT == 1
UNDO_CHAR_DELETE == 2
UNDO_CHAR_DELETE_FWD == 3
UNDO_ROW_INSERT == 4
UNDO_ROW_DELETE == 5
UNDO_ROW_SPLIT == 6
UNDO_SELECTION_DELETE == 7
UNDO_PASTE == 8
MITER_TAB_STOP == 8
DEFAULT_WRAP_COLUMN == 80
WORD_BREAK_SEARCH_WINDOW == 20

(* Bounds of the model *)

MaxSteps == 3        \* key events per behaviour, one cursor
MaxMultiSteps == 3   \* key events per behaviour, several cursors
MaxQuitSteps == 5    \* key events per behaviour, quitting
MaxTicks == 2        \* clock advances per behaviour
TickMs == 300        \* milliseconds per clock advance
MaxDirty == 3        \* editor.dirty saturates here
MaxMoveSteps == 3    \* key events per behaviour, movement with several cursors
MaxDecodeSteps == 3  \* calls of editor_read_key per behaviour
MaxInputSteps == 4   \* keys read and handled per behaviour
MaxFindSteps == 5    \* keys per behaviour, searching
MaxDeleteSteps == 2  \* key events per behaviour, the Delete key with several cursors
MaxSignals == 2      \* deliveries of SIGWINCH per behaviour
MaxGestures == 1     \* searches and ESC keys typed ahead per behaviour
MaxCursors == 2      \* secondary cursors in an initial state
MaxLogSteps == 3
MaxOpenSteps == 4
MaxSyntaxSteps == 3
MaxCommentSteps == 3
MaxReflowSteps == 3
MaxWrapSteps == 2
MaxWrapWidth == 4
MaxTabSteps == 2
MaxClickX == 17
MaxBracketSteps == 3
MaxFrameSteps == 3
\* lengths of the undo log the long sessions start from: one entry short of
\* the last doubling, and the hard limit
LogCounts == {8191, 10000}
\* and one entry short of the grown capacity
TrimCounts == {16383}
\* keys typed between two pauses (0: never a pause)
LogGroupSizes == {0, 3}

---------------------------------------------------------------------------
(* Values *)

LF == "\n"
NUL == "NUL"                \* the terminating '\0' read at chars[line_size]
NULLCH == "NULL"            \* a NULL char_data pointer
NULLSTR == <<"NULL">>       \* a NULL row_content / multi_line / clipboard pointer

IsSpace(c) == c \in {" ", "\t", LF}
IsBlank(c) == c \in {" ", "\t"}

Min(S) == CHOOSE x \in S : \A y \in S : x <= y
Max(S) == CHOOSE x \in S : \A y \in S : x >= y

\* s[from .. to) with C indices
Slice(s, from, to) == SubSeq(s, from + 1, to)
InsertAt(s, at, x) == SubSeq(s, 1, at) \o <<x>> \o SubSeq(s, at + 1, Len(s))
RemoveAt(s, at) == SubSeq(s, 1, at) \o SubSeq(s, at + 2, Len(s))
\* chars[i], reading the terminator at i = line_size
CharAt(s, i) == IF i >= 0 /\ i < Len(s) THEN s[i + 1] ELSE NUL

RECURSIVE SetToSeq(_)
SetToSeq(S) == IF S = {} THEN <<>> ELSE LET x == CHOOSE x \in S : TRUE IN <<x>> \o SetToSeq(S \ {x})

Pos(r, c) == [row |-> r, col |-> c]
Cur(l, c) == [line |-> l, column |-> c]

Inc(n) == IF n < MaxDirty THEN n + 1 ELSE n
IncBy(n, k) == IF n + k < MaxDirty THEN n + k ELSE MaxDirty

MarkDirty(E) == [E EXCEPT !.dirty = Inc(E.dirty)]
Crash(E) == [E EXCEPT !.crashed = TRUE]
InRows(E, y) == y >= 0 /\ y < Len(E.row)
RowAt(E, y) == IF InRows(E, y) THEN E.row[y + 1] ELSE <<>>
LineSize(E, y) == Len(RowAt(E, y))
SetStatus(E, msg) == [E EXCEPT !.status_message = msg]

---------------------------------------------------------------------------
(* Row store *)

\* chars[i .. i + length of marker) = marker (strncmp against the row, which
\* ends with the terminator)
StartsAt(chars, i, marker) ==
    i + Len(marker) <= Len(chars) /\ SubSeq(chars, i + 1, i + Len(marker)) = marker

RECURSIVE ScanComment(_, _, _, _)
\* the scanner loop of editor_update_syntax for the C syntax, reduced to what
\* decides in_comment: line comments, block comments and string literals
\* (numbers and keywords only advance over characters of neither)
ScanComment(render, i, in_string, in_comment) ==
    IF i >= Len(render) THEN in_comment
    ELSE IF in_string = "" /\ ~in_comment /\ StartsAt(render, i, <<"/", "/">>)
         THEN in_comment
    ELSE IF in_string = "" /\ in_comment
         THEN IF StartsAt(render, i, <<"*", "/">>)
              THEN ScanComment(render, i + 2, in_string, FALSE)
              ELSE ScanComment(render, i + 1, in_string, in_comment)
    ELSE IF in_string = "" /\ StartsAt(render, i, <<"/", "*">>)
         THEN ScanComment(render, i + 2, in_string, TRUE)
    ELSE IF in_string # ""
         THEN IF render[i + 1] = "\\" /\ i + 1 < Len(render)
              THEN ScanComment(render, i + 2, in_string, in_comment)
              ELSE ScanComment(render, i + 1,
                               IF render[i + 1] = in_string THEN "" ELSE in_string,
                               in_comment)
    ELSE IF render[i + 1] \in {"\"", "'"}
         THEN ScanComment(render, i + 1, render[i + 1], in_comment)
    ELSE ScanComment(render, i + 1, in_string, in_comment)

RECURSIVE editor_update_syntax(_, _, _)
\* row_count is editor.row_count as the call finds it: editor_insert_row
\* increments it only after the new row was scanned
editor_update_syntax(E, line_index, row_count) ==
    IF ~E.syntax THEN E
    ELSE LET in_comment ==
                 ScanComment(E.row[line_index + 1], 0, "",
                             line_index > 0 /\ E.open_comment[line_index])
             Next(changed, E1) ==
                 IF changed /\ line_index + 1 < row_count
                 THEN editor_update_syntax(E1, line_index + 1, row_count)
                 ELSE E1
         IN Next(E.open_comment[line_index + 1] # in_comment,
                 [E EXCEPT !.open_comment[line_index + 1] = in_comment])

\* row->render: the characters of the row with every tab replaced by spaces
\* up to the next multiple of MITER_TAB_STOP
render(chars) ==
    LET RECURSIVE Expand(_, _)
        Expand(char_index, out) ==
            IF char_index > Len(chars) THEN out
            ELSE IF chars[char_index] = "\t"
                 THEN Expand(char_index + 1,
                             out \o [k \in 1..(MITER_TAB_STOP - (Len(out) % MITER_TAB_STOP)) |-> " "])
                 ELSE Expand(char_index + 1, Append(out, chars[char_index]))
    IN Expand(1, <<>>)

\* render column of cursor column cx: a tab advances to the next tab stop
editor_row_cursor_to_render(chars, cx) ==
    LET RECURSIVE Loop(_, _)
        Loop(char_index, rx) ==
            IF char_index >= cx THEN rx
            ELSE Loop(char_index + 1,
                      (IF chars[char_index + 1] = "\t"
                       THEN rx + (MITER_TAB_STOP - 1) - (rx % MITER_TAB_STOP)
                       ELSE rx) + 1)
    IN Loop(0, 0)

editor_row_render_to_cursor_Inclusive(chars, rx) ==
    LET RECURSIVE Loop(_, _)
        Loop(cx, cur_rx) ==
            IF cx >= Len(chars) THEN cx
            ELSE LET Advanced(n) == IF n >= rx THEN cx ELSE Loop(cx + 1, n)
                 IN Advanced((IF chars[cx + 1] = "\t"
                              THEN cur_rx + (MITER_TAB_STOP - 1) - (cur_rx % MITER_TAB_STOP)
                              ELSE cur_rx) + 1)
    IN Loop(0, 0)

\* cursor column of render column rx: the first column whose next column
\* renders past rx, or the end of the row
editor_row_render_to_cursor(chars, rx) ==
    LET RECURSIVE Loop(_, _)
        Loop(cx, cur_rx) ==
            IF cx >= Len(chars) THEN cx
            ELSE LET Advanced(n) == IF n > rx THEN cx ELSE Loop(cx + 1, n)
                 IN Advanced((IF chars[cx + 1] = "\t"
                              THEN cur_rx + (MITER_TAB_STOP - 1) - (cur_rx % MITER_TAB_STOP)
                              ELSE cur_rx) + 1)
    IN Loop(0, 0)

\* editor_reset_bracket_match: the bracket-match state when nothing matched
NoBracket == [match_row |-> -1, match_col |-> -1,
              open_row |-> -1, open_col |-> -1, open_len |-> 0,
              close_row |-> -1, close_col |-> -1, close_len |-> 0]

\* row->wrap_breaks before the first calculation (NULL, count 0); g_width and
\* g_render are ghosts: the width and the render string of the last calculation
NoWrap == [wrap_breaks |-> <<>>, g_width |-> -1, g_render |-> <<>>]

\* the break positions the loop writes into breaks[], and the number of ints
\* the malloc of breaks[] has room for (0: nothing allocated)
editor_calculate_wrap_breaks(row_render, available_width) ==
    LET render_size == Len(row_render)
        RECURSIVE Loop(_, _, _, _)
        Loop(i, line_start, last_break_pos, breaks) ==
            IF i >= render_size THEN breaks
            ELSE LET Exceeded(lbp) ==
                         LET break_pos == IF lbp > line_start THEN lbp ELSE i
                         IN IF i - line_start >= available_width
                            THEN Loop(i + 1, break_pos, break_pos, Append(breaks, break_pos))
                            ELSE Loop(i + 1, line_start, lbp, breaks)
                 IN Exceeded(IF i > 0 /\ row_render[i] \in {" ", "\t"}
                             THEN i ELSE last_break_pos)
    IN IF available_width <= 0 \/ render_size <= available_width
       THEN [breaks |-> <<>>, allocated |-> 0]
       ELSE [breaks |-> Loop(0, 0, 0, <<>>),
             allocated |-> (render_size \div available_width) + 2]

\* what row y holds after the call.  When the loop writes more breaks than
\* were allocated the writes land outside the block: the build's allocator
\* may have slack there (the breaks are kept), the words may belong to
\* another block that writes them later (they read back as garbage), or the
\* allocator finds its bookkeeping overwritten and aborts.
StoreWrapBreaks(E, y, available_width, outcome, garbage) ==
    LET row_render == render(E.row[y + 1])
        Store(res) ==
            LET n == Len(res.breaks) IN
            IF n > res.allocated /\ res.allocated > 0 /\ outcome = "abort" THEN Crash(E)
            ELSE [E EXCEPT !.wrap[y + 1] =
                     [wrap_breaks |-> [k \in 1..n |->
                                         IF k > res.allocated /\ outcome = "garbage"
                                         THEN garbage ELSE res.breaks[k]],
                      g_width |-> available_width,
                      g_render |-> row_render]]
    IN Store(editor_calculate_wrap_breaks(row_render, available_width))

\* the render string is the row with its tabs expanded; the scan follows
editor_update_row(E, y) ==
    IF E.crashed \/ ~InRows(E, y) THEN E
    ELSE editor_update_syntax(E, y, Len(E.row))

editor_insert_row(E, at, string) ==
    IF at < 0 \/ at > Len(E.row) THEN E
    ELSE MarkDirty(editor_update_syntax(
             [E EXCEPT !.row = InsertAt(E.row, at, string),
                       !.open_comment = InsertAt(E.open_comment, at, FALSE),
                       !.wrap = InsertAt(E.wrap, at, NoWrap)],
             at, Len(E.row)))

editor_delete_row(E, at) ==
    IF at < 0 \/ at >= Len(E.row) THEN E
    ELSE [E EXCEPT !.row = RemoveAt(E.row, at),
                   !.open_comment = RemoveAt(E.open_comment, at),
                   !.wrap = RemoveAt(E.wrap, at),
                   !.dirty = Inc(E.dirty)]

editor_row_insert_char(E, y, at, character) ==
    IF ~InRows(E, y) THEN Crash(E)
    ELSE LET size == LineSize(E, y)
             a == IF at < 0 \/ at > size THEN size ELSE at
         IN MarkDirty(editor_update_row(
                [E EXCEPT !.row[y + 1] = InsertAt(@, a, character)], y))

editor_row_append_string(E, y, string) ==
    IF ~InRows(E, y) THEN Crash(E)
    ELSE MarkDirty(editor_update_row([E EXCEPT !.row[y + 1] = @ \o string], y))

editor_row_delete_char(E, y, at) ==
    IF ~InRows(E, y) THEN Crash(E)
    ELSE IF at < 0 \/ at >= LineSize(E, y) THEN E
    ELSE MarkDirty(editor_update_row([E EXCEPT !.row[y + 1] = RemoveAt(@, at)], y))

---------------------------------------------------------------------------
(* Undo log: grouping, truncation, logging *)

undo_start_new_group(E) ==
    [E EXCEPT !.undo_group_id = E.undo_group_id + 1,
              !.undo_position = E.undo_group_id + 1]

undo_maybe_start_group(E, force_new) ==
    IF force_new THEN undo_start_new_group(E)
    ELSE LET elapsed_ms == clock - E.last_edit_time
             E1 == IF elapsed_ms > UNDO_GROUP_TIMEOUT_MS \/ E.undo_group_id = 0
                   THEN [E EXCEPT !.undo_group_id = E.undo_group_id + 1,
                                  !.undo_position = E.undo_group_id + 1]
                   ELSE E
         IN [E1 EXCEPT !.last_edit_time = clock]

undo_clear_redo(E) ==
    IF E.undo_position >= E.undo_group_id THEN E
    ELSE IF E.undo_stack_capacity = 0 THEN E
    ELSE LET above == {i \in 1..Len(E.undo_stack) :
                          E.undo_stack[i].group_id > E.undo_position}
             new_count == IF above = {} THEN Len(E.undo_stack) ELSE Min(above) - 1
         IN [E EXCEPT !.undo_stack = SubSeq(E.undo_stack, 1, new_count),
                      !.undo_group_id = E.undo_position]

ForcesNewGroup(type) ==
    type \in {UNDO_ROW_INSERT, UNDO_ROW_DELETE, UNDO_ROW_SPLIT,
              UNDO_SELECTION_DELETE, UNDO_PASTE}

undo_log(E, type, cursor_row, cursor_col, row_idx, char_pos, char_data, end_row, end_col, multi_line) ==
    LET \* the entry is written at undo_stack[undo_stack_count++]
        Store(E3) ==
            [E3 EXCEPT !.undo_stack = Append(@,
                          [group_id |-> E3.undo_group_id,
                           op_type |-> type,
                           cursor_row |-> cursor_row,
                           cursor_col |-> cursor_col,
                           row_idx |-> row_idx,
                           char_pos |-> char_pos,
                           end_row |-> end_row,
                           end_col |-> end_col,
                           row_content |->
                               IF type \in {UNDO_ROW_DELETE, UNDO_ROW_INSERT}
                                  /\ row_idx >= 0 /\ row_idx < Len(E3.row)
                               THEN E3.row[row_idx + 1] ELSE NULLSTR,
                           char_data |-> char_data,
                           multi_line |-> multi_line,
                           g_seq |-> E3.g_nlogs + 1,
                           g_time |-> clock,
                           g_first |-> \A j \in 1..Len(E3.undo_stack) :
                                          E3.undo_stack[j].group_id # E3.undo_group_id]),
                       !.undo_position = E3.undo_group_id,
                       !.g_nlogs = @ + 1]
        \* grow the stack, or drop its oldest quarter at the maximum
        Grow(E2) ==
            Store(IF Len(E2.undo_stack) >= E2.undo_stack_capacity
                  THEN IF E2.undo_stack_capacity >= UNDO_MAX_ENTRIES
                       THEN [E2 EXCEPT !.undo_stack =
                                SubSeq(@, (E2.undo_stack_capacity \div 4) + 1, Len(@))]
                       ELSE [E2 EXCEPT !.undo_stack_capacity = 2 * @]
                  ELSE E2)
        \* initialize the stack if needed
        Alloc(E1) ==
            Grow(IF E1.undo_stack_capacity = 0
                 THEN [E1 EXCEPT !.undo_stack_capacity = UNDO_INITIAL_CAPACITY,
                                 !.undo_stack = <<>>]
                 ELSE E1)
    IN IF E.undo_logging THEN E
       ELSE Alloc(undo_maybe_start_group(undo_clear_redo(E), ForcesNewGroup(type)))

---------------------------------------------------------------------------
(* Selection *)

selection_start(E) ==
    [E EXCEPT !.selection = [active |-> TRUE,
                             anchor |-> Pos(E.cursor_y, E.cursor_x),
                             cursor |-> Pos(E.cursor_y, E.cursor_x)]]

selection_extend(E) ==
    IF ~E.selection.active THEN selection_start(E)
    ELSE [E EXCEPT !.selection.cursor = Pos(E.cursor_y, E.cursor_x)]

selection_clear(E) == [E EXCEPT !.selection.active = FALSE]

PosLeq(a, b) == a.row < b.row \/ (a.row = b.row /\ a.col <= b.col)

\* <<start, end>> in document order
selection_normalize(E) ==
    IF PosLeq(E.selection.anchor, E.selection.cursor)
    THEN <<E.selection.anchor, E.selection.cursor>>
    ELSE <<E.selection.cursor, E.selection.anchor>>

selection_select_all(E) ==
    IF Len(E.row) = 0 THEN E
    ELSE [E EXCEPT !.selection = [active |-> TRUE,
                                  anchor |-> Pos(0, 0),
                                  cursor |-> Pos(Len(E.row) - 1, LineSize(E, Len(E.row) - 1))],
                   !.cursor_y = Len(E.row) - 1,
                   !.cursor_x = LineSize(E, Len(E.row) - 1)]

\* The two endpoints address existing characters: what selection_get_text and
\* selection_delete assume when they memcpy/memmove between them.
SelectionInBounds(E) ==
    LET Within(start, end) ==
            /\ start.row >= 0 /\ end.row < Len(E.row)
            /\ start.col >= 0 /\ start.col <= LineSize(E, start.row)
            /\ end.col >= 0 /\ end.col <= LineSize(E, end.row)
    IN Within(selection_normalize(E)[1], selection_normalize(E)[2])

\* a row's slice of the selection reads past the row's terminating NUL, or
\* has a negative length: the memcpy of selection_get_text is out of bounds
SelTextOutOfBounds(E) ==
    LET Bad(line_start, line_end, size) ==
            line_start < 0 \/ line_start > line_end \/ line_end > size + 1
        Outside(start, end) ==
            \E r \in 0..(Len(E.row) - 1) :
               /\ r >= start.row /\ r <= end.row
               /\ Bad(IF r = start.row THEN start.col ELSE 0,
                      IF r = end.row THEN end.col ELSE LineSize(E, r),
                      LineSize(E, r))
    IN Outside(selection_normalize(E)[1], selection_normalize(E)[2])

RECURSIVE SelTextFrom(_, _, _, _)
\* the C string built by selection_get_text: it ends at the first NUL copied
SelTextFrom(E, r, start, end) ==
    LET Piece(line_start, line_end) ==
            IF line_end > LineSize(E, r)
            THEN Slice(RowAt(E, r), Min({line_start, LineSize(E, r)}), LineSize(E, r))
            ELSE Slice(RowAt(E, r), line_start, line_end)
                 \o (IF r < end.row THEN <<LF>> ELSE <<>>)
                 \o SelTextFrom(E, r + 1, start, end)
    IN IF r > end.row \/ r >= Len(E.row) THEN <<>>
       ELSE Piece(IF r = start.row THEN start.col ELSE 0,
                  IF r = end.row THEN end.col ELSE LineSize(E, r))

selection_get_text(E) ==
    IF ~E.selection.active THEN NULLSTR
    ELSE SelTextFrom(E, selection_normalize(E)[1].row,
                     selection_normalize(E)[1], selection_normalize(E)[2])

RECURSIVE DeleteRowsDown(_, _, _)
DeleteRowsDown(E, r, stop) ==
    IF r <= stop THEN E ELSE DeleteRowsDown(editor_delete_row(E, r), r - 1, stop)

selection_delete(E) ==
    LET Delete(start, end) ==
            LET \* the tail of the last row joins the head of the first
                Join(E2) ==
                    editor_update_row([E2 EXCEPT !.row[start.row + 1] =
                                          Slice(RowAt(E2, start.row), 0, start.col)
                                          \o Slice(RowAt(E2, end.row), end.col, LineSize(E2, end.row))], start.row)
                Finish(E3) == selection_clear([E3 EXCEPT !.dirty = Inc(E3.dirty)])
                MoveCursor(E1) ==
                    [E1 EXCEPT !.cursor_y = start.row, !.cursor_x = start.col]
            IN Finish(DeleteRowsDown(
                  Join(MoveCursor(
                      IF ~E.undo_logging
                      THEN undo_log(E, UNDO_SELECTION_DELETE, start.row, start.col, start.row, start.col, NULLCH, end.row, end.col, selection_get_text(E))
                      ELSE E)),
                  end.row, start.row))
    IN IF ~E.selection.active THEN E
       ELSE IF ~SelectionInBounds(E) THEN Crash(E)
       ELSE Delete(selection_normalize(E)[1], selection_normalize(E)[2])

---------------------------------------------------------------------------
(* Cursor set *)

CurLess(a, b) == a.line < b.line \/ (a.line = b.line /\ a.column < b.column)
SamePos(a, b) == a.line = b.line /\ a.column = b.column

RECURSIVE InsertSorted(_, _, _)
InsertSorted(sorted, c, reverse) ==
    IF sorted = <<>> THEN <<c>>
    ELSE IF (IF reverse THEN CurLess(Head(sorted), c) ELSE CurLess(c, Head(sorted)))
         THEN <<c>> \o sorted
         ELSE <<Head(sorted)>> \o InsertSorted(Tail(sorted), c, reverse)

\* qsort with cursor_cmp_forward / cursor_cmp_reverse: elements that compare
\* equal are equal records, so every sorting order gives the same sequence
RECURSIVE SortCursors(_, _)
SortCursors(cs, reverse) ==
    IF cs = <<>> THEN <<>>
    ELSE InsertSorted(SortCursors(Tail(cs), reverse), Head(cs), reverse)

multicursor_collect_all(E, reverse) ==
    SortCursors(<<Cur(E.cursor_y, E.cursor_x)>> \o E.cursors, reverse)

\* index of the first element of all at position (l, c), 0 when there is none
FirstAt(all, l, c) ==
    LET hits == {j \in 1..Len(all) : all[j].line = l /\ all[j].column = c}
    IN IF hits = {} THEN 0 ELSE Min(hits)

RECURSIVE DropPrimaryOverlap(_, _, _)
DropPrimaryOverlap(E, cs, kept) ==
    IF cs = <<>> THEN <<>>
    ELSE IF Head(cs).line = E.cursor_y /\ Head(cs).column = E.cursor_x
         THEN IF E.allow_primary_overlap /\ ~kept
              THEN <<Head(cs)>> \o DropPrimaryOverlap(E, Tail(cs), TRUE)
              ELSE DropPrimaryOverlap(E, Tail(cs), kept)
         ELSE <<Head(cs)>> \o DropPrimaryOverlap(E, Tail(cs), kept)

\* the second pass left out: duplicates among the secondaries stay
CollapseAdjacent_Skipped(cs) == cs

RECURSIVE CollapseAdjacent(_)
CollapseAdjacent(cs) ==
    IF Len(cs) <= 1 THEN cs
    ELSE LET rest == CollapseAdjacent(Tail(cs))
         IN IF SamePos(Head(cs), Head(rest)) THEN rest ELSE <<Head(cs)>> \o rest

\* g_dedup is a history record of the last pass that did work: the number
\* of secondaries it was given, and the cursor set and overlap mode it left
DedupDone(E, first, cs) ==
    [E EXCEPT !.cursors = cs,
              !.g_dedup = [ran |-> TRUE, before |-> Len(E.cursors),
                           first |-> Len(first), cursors |-> cs,
                           line |-> E.cursor_y, column |-> E.cursor_x,
                           overlap |-> E.allow_primary_overlap]]

multicursor_remove_duplicates(E) ==
    IF Len(E.cursors) = 0 THEN E
    ELSE LET first == DropPrimaryOverlap(E, E.cursors, FALSE)
         IN IF Len(first) <= 1 THEN DedupDone(E, first, first)
            ELSE DedupDone(E, first, CollapseAdjacent(SortCursors(first, FALSE)))


---------------------------------------------------------------------------
(* Indentation helpers *)

indent_line_apply(E, line) ==
    IF line < 0 \/ line >= Len(E.row) THEN [e |-> E, delta |-> 0]
    ELSE [e |-> editor_update_row([E EXCEPT !.row[line + 1] = [i \in 1..INDENT_SIZE |-> " "] \o @,
                                            !.dirty = Inc(E.dirty)], line),
          delta |-> INDENT_SIZE]

RECURSIVE LeadingCount(_, _, _, _)
\* number of leading characters of s, from index n on, that are in set, at most limit
LeadingCount(s, n, set, limit) ==
    IF n < limit /\ n < Len(s) /\ s[n + 1] \in set
    THEN LeadingCount(s, n + 1, set, limit) ELSE n

unindent_line_apply(E, line) ==
    IF line < 0 \/ line >= Len(E.row) THEN [e |-> E, delta |-> 0]
    ELSE LET spaces_to_remove == LeadingCount(RowAt(E, line), 0, {" "}, INDENT_SIZE)
         IN IF spaces_to_remove = 0 THEN [e |-> E, delta |-> 0]
            ELSE [e |-> editor_update_row([E EXCEPT !.row[line + 1] = Slice(@, spaces_to_remove, Len(@)),
                                                    !.dirty = Inc(E.dirty)], line),
                  delta |-> 0 - spaces_to_remove]

editor_line_indentation(row) == LeadingCount(row, 0, {" ", "\t"}, Len(row))

RECURSIVE TrimmedLen(_, _)
\* length of s[0..i) without its trailing white space
TrimmedLen(s, i) == IF i > 0 /\ IsSpace(s[i]) THEN TrimmedLen(s, i - 1) ELSE i

editor_line_ends_with_opening_brace(row) ==
    IF Len(row) = 0 THEN FALSE
    ELSE LET i == TrimmedLen(row, Len(row))
         IN IF i = 0 THEN FALSE ELSE row[i] = "{"

editor_line_starts_with_closing_brace(row) ==
    LET i == LeadingCount(row, 0, {" ", "\t", LF}, Len(row))
    IN i < Len(row) /\ row[i + 1] = "}"

editor_auto_unindent_closing_brace(E, line) ==
    IF line < 0 \/ line >= Len(E.row) THEN [e |-> E, delta |-> 0]
    ELSE IF ~editor_line_starts_with_closing_brace(RowAt(E, line))
         THEN [e |-> E, delta |-> 0]
         ELSE unindent_line_apply(E, line)

---------------------------------------------------------------------------
(* Multi-cursor editing *)

editor_insert_char_at(E, line, col, character) ==
    IF line < 0 \/ line > Len(E.row) THEN E
    ELSE MarkDirty(editor_row_insert_char(
             IF line = Len(E.row) THEN editor_insert_row(E, Len(E.row), <<>>) ELSE E,
             line, col, character))

RECURSIVE mc_insert_each(_, _, _, _)
mc_insert_each(E, all, i, character) ==
    IF i > Len(all) THEN E
    ELSE LET line == all[i].line
             col == all[i].column
         IN mc_insert_each(
                editor_insert_char_at(
                    undo_log(E, UNDO_CHAR_INSERT, line, col, line, col, character, 0, 0, NULLSTR),
                    line, col, character),
                all, i + 1, character)

RECURSIVE mc_unindent_each(_, _, _)
mc_unindent_each(E, all, i) ==
    IF i > Len(all) THEN E
    ELSE IF \E j \in 1..(i - 1) : all[j].line = all[i].line
         THEN mc_unindent_each(E, all, i + 1)
         ELSE mc_unindent_each(editor_auto_unindent_closing_brace(E, all[i].line).e, all, i + 1)

\* restore the primary and the secondaries by matching their original positions
mc_restore(E, orig, new, with_line) ==
    LET p == FirstAt(orig, E.cursor_y, E.cursor_x)
        E1 == IF p = 0 THEN E
              ELSE [E EXCEPT !.cursor_x = new[p].column,
                             !.cursor_y = IF with_line THEN new[p].line ELSE @]
    IN [E1 EXCEPT !.cursors =
          [i \in 1..Len(E.cursors) |->
              LET j == FirstAt(orig, E.cursors[i].line, E.cursors[i].column)
              IN IF j = 0 THEN E.cursors[i]
                 ELSE Cur(IF with_line THEN new[j].line ELSE E.cursors[i].line,
                          new[j].column)]]

multicursor_insert_char(E, character) ==
    LET \* new column = original column + inserts at or before it on the line
        Shifted(orig_positions) ==
            [i \in 1..Len(orig_positions) |->
                Cur(orig_positions[i].line,
                    orig_positions[i].column
                    + Cardinality({j \in 1..Len(orig_positions) :
                          /\ orig_positions[j].line = orig_positions[i].line
                          /\ orig_positions[j].column <= orig_positions[i].column}))]
        Unindent(E2, all_cursors) ==
            IF character = "}" THEN mc_unindent_each(E2, all_cursors, 1) ELSE E2
        Batch(E0, all_cursors) ==
            multicursor_remove_duplicates(
                mc_restore(
                    Unindent(mc_insert_each(undo_start_new_group(E0), all_cursors, 1, character),
                             all_cursors),
                    all_cursors, Shifted(all_cursors), FALSE))
        Start(E0) == Batch(E0, multicursor_collect_all(E0, TRUE))
    IN IF Len(E.cursors) = 0 THEN E
       ELSE Start(IF E.selection.active THEN selection_delete(E) ELSE E)

RECURSIVE mc_delete_each(_, _, _, _)
\* the deletions, end of file first; gives the editor, all_cursors and line_merged
mc_delete_each(E, all, merged, i) ==
    IF i > Len(all) THEN [e |-> E, all |-> all, merged |-> merged]
    ELSE
    LET line == all[i].line
        col == all[i].column
        Merge(E1) ==
            MarkDirty(editor_delete_row(
                editor_row_append_string(E1, line - 1, RowAt(E1, line)), line))
    IN IF line = 0 /\ col = 0 THEN mc_delete_each(E, all, merged, i + 1)
       ELSE IF line >= Len(E.row) THEN mc_delete_each(E, all, merged, i + 1)
       ELSE IF col > 0
       THEN IF col <= LineSize(E, line)
            THEN mc_delete_each(
                     MarkDirty(editor_row_delete_char(
                         undo_log(E, UNDO_CHAR_DELETE, line, col, line, col - 1, CharAt(RowAt(E, line), col - 1), 0, 0, NULLSTR),
                         line, col - 1)),
                     all, merged, i + 1)
            ELSE mc_delete_each(E, all, merged, i + 1)
       ELSE IF line - 1 < 0 THEN mc_delete_each(Crash(E), all, merged, i + 1)
       ELSE mc_delete_each(
                Merge(undo_log(E, UNDO_ROW_DELETE, line, col, line, 0, NULLCH, 0, 0, NULLSTR)),
                [all EXCEPT ![i] = Cur(line - 1, LineSize(E, line - 1))],
                [merged EXCEPT ![i] = TRUE], i + 1)

multicursor_delete_char(E) ==
    LET \* the position of cursor i after the batch
        NewPos(done, orig, i) ==
            IF orig[i].line = 0 /\ orig[i].column = 0 THEN done.all[i]
            ELSE IF done.merged[i] THEN done.all[i]
            ELSE
            LET lines_removed_before == Cardinality({j \in 1..Len(orig) :
                    /\ j # i /\ done.merged[j]
                    /\ \/ orig[j].line < orig[i].line
                       \/ (orig[j].line = orig[i].line /\ orig[j].column < orig[i].column)})
                deletions_before == Cardinality({j \in 1..Len(orig) :
                    /\ j # i /\ ~done.merged[j]
                    /\ orig[j].line = orig[i].line
                    /\ orig[j].column > 0
                    /\ orig[j].column <= orig[i].column})
            IN Cur(orig[i].line - lines_removed_before,
                   IF orig[i].column - 1 - deletions_before < 0 THEN 0
                   ELSE orig[i].column - 1 - deletions_before)
        Restore(done, orig) ==
            multicursor_remove_duplicates(
                mc_restore(done.e, orig, [i \in 1..Len(orig) |-> NewPos(done, orig, i)], TRUE))
        Batch(all_cursors) ==
            Restore(mc_delete_each(undo_start_new_group(E), all_cursors,
                                   [i \in 1..Len(all_cursors) |-> FALSE], 1),
                    all_cursors)
    IN IF Len(E.cursors) = 0 THEN E
       ELSE IF E.selection.active THEN selection_delete(E)
       ELSE Batch(multicursor_collect_all(E, TRUE))

editor_insert_newline_at(E, line, col) ==
    LET Indent(E1, total_indent) ==
            MarkDirty(IF total_indent > 0 /\ ~E1.crashed
                      THEN editor_update_row([E1 EXCEPT !.row[line + 2] = [i \in 1..total_indent |-> " "] \o @,
                                                        !.dirty = IncBy(E1.dirty, total_indent)], line + 1)
                      ELSE E1)
        Split(current) ==
            Indent(IF col = 0 THEN editor_insert_row(E, line, <<>>)
                   ELSE IF col < 0 \/ col > Len(current) THEN Crash(E)
                   ELSE editor_update_row([editor_insert_row(E, line + 1, Slice(current, col, Len(current)))
                                              EXCEPT !.row[line + 1] = Slice(current, 0, col)], line),
                   editor_line_indentation(current)
                   + (IF editor_line_ends_with_opening_brace(current) THEN 4 ELSE 0))
    IN IF line < 0 \/ line > Len(E.row) THEN E
       ELSE IF line = Len(E.row) THEN editor_insert_row(E, Len(E.row), <<>>)
       ELSE Split(RowAt(E, line))

RECURSIVE mc_newline_each(_, _, _)
mc_newline_each(E, all, i) ==
    IF i > Len(all) THEN E
    ELSE LET line == all[i].line
             col == all[i].column
         IN mc_newline_each(
                editor_insert_newline_at(
                    IF col = 0
                    THEN undo_log(E, UNDO_ROW_INSERT, line, col, line, 0, NULLCH, 0, 0, NULLSTR)
                    ELSE undo_log(E, UNDO_ROW_SPLIT, line, col, line, col, NULLCH, 0, 0, NULLSTR),
                    line, col),
                all, i + 1)

multicursor_insert_newline(E) ==
    LET \* indentation the new line of cursor i gets, computed before the edits
        NewIndent(E0, orig, i) ==
            IF orig[i].line >= Len(E0.row) THEN 0
            ELSE editor_line_indentation(RowAt(E0, orig[i].line))
                 + (IF editor_line_ends_with_opening_brace(RowAt(E0, orig[i].line))
                    THEN 4 ELSE 0)
        NewPos(E0, orig, i) ==
            Cur(orig[i].line + 1
                + Cardinality({j \in 1..Len(orig) :
                     \/ orig[j].line < orig[i].line
                     \/ (orig[j].line = orig[i].line /\ orig[j].column < orig[i].column)}),
                NewIndent(E0, orig, i))
        Batch(E0, orig) ==
            multicursor_remove_duplicates(
                mc_restore(mc_newline_each(undo_start_new_group(E0), orig, 1),
                           orig, [i \in 1..Len(orig) |-> NewPos(E0, orig, i)], TRUE))
        Start(E0) == Batch(E0, multicursor_collect_all(E0, TRUE))
    IN IF Len(E.cursors) = 0 THEN E
       ELSE Start(IF E.selection.active THEN selection_delete(E) ELSE E)

---------------------------------------------------------------------------
(* Single-cursor editing *)

editor_insert_char(E, character) ==
    LET \* the cursor follows the text the unindent removed
        Follow(u) ==
            IF u.delta < 0
            THEN [u.e EXCEPT !.cursor_x = IF @ >= 0 - u.delta THEN @ + u.delta ELSE 0]
            ELSE u.e
        Brace(E5) ==
            IF character = "}" /\ ~E5.crashed
            THEN Follow(editor_auto_unindent_closing_brace(E5, E5.cursor_y))
            ELSE E5
        Insert(E3) ==
            Brace([editor_row_insert_char(E3, E3.cursor_y, E3.cursor_x, character)
                      EXCEPT !.cursor_x = @ + 1])
        Log(E2) ==
            Insert(undo_log(E2, UNDO_CHAR_INSERT, E2.cursor_y, E2.cursor_x, E2.cursor_y, E2.cursor_x, character, 0, 0, NULLSTR))
        NewRow(E1) ==
            Log(IF E1.cursor_y = Len(E1.row)
                THEN editor_insert_row(E1, Len(E1.row), <<>>) ELSE E1)
    IN IF Len(E.cursors) > 0 THEN multicursor_insert_char(E, character)
       ELSE NewRow(IF E.selection.active THEN selection_delete(E) ELSE E)

RECURSIVE SkipSpaceBack(_, _)
SkipSpaceBack(chars, check_pos) ==
    IF check_pos > 0 /\ IsSpace(CharAt(chars, check_pos))
    THEN SkipSpaceBack(chars, check_pos - 1) ELSE check_pos

editor_insert_newline(E) ==
    LET Indent(E3, current, y, indent_len, extra_indent) ==
            IF indent_len + extra_indent > 0 /\ ~E3.crashed
            THEN IF ~InRows(E3, y + 1) THEN Crash(E3)
                 ELSE editor_update_row([E3 EXCEPT !.row[y + 2] =
                                                       SubSeq(current, 1, indent_len)
                                                       \o [i \in 1..extra_indent |-> " "] \o @,
                                                   !.dirty = IncBy(E3.dirty, indent_len + extra_indent),
                                                   !.cursor_x = indent_len + extra_indent], y + 1)
            ELSE E3
        Split(E1, current, y, x) ==
            [(IF x = 0
              THEN editor_insert_row(
                       undo_log(E1, UNDO_ROW_INSERT, y, x, y, 0, NULLCH, 0, 0, NULLSTR),
                       y, <<>>)
              ELSE IF ~InRows(E1, y) \/ x < 0 \/ x > Len(current) THEN Crash(E1)
              ELSE editor_update_row([editor_insert_row(
                                         undo_log(E1, UNDO_ROW_SPLIT, y, x, y, x, NULLCH, 0, 0, NULLSTR),
                                         y + 1, Slice(current, x, Len(current)))
                                        EXCEPT !.row[y + 1] = Slice(current, 0, x)], y))
                EXCEPT !.cursor_y = y + 1, !.cursor_x = 0]
        \* indentation is captured from the current line before the split
        Capture(E1, current, y, x) ==
            LET check_pos == SkipSpaceBack(current, IF x > 0 THEN x - 1 ELSE 0)
            IN Indent(Split(E1, current, y, x), current, y,
                      IF y < Len(E1.row)
                      THEN LeadingCount(current, 0, {" ", "\t"}, INDENT_BUF_SIZE - 5)
                      ELSE 0,
                      IF y < Len(E1.row) /\ check_pos >= 0
                         /\ CharAt(current, check_pos) = "{"
                      THEN 4 ELSE 0)
        Start(E1) == Capture(E1, RowAt(E1, E1.cursor_y), E1.cursor_y, E1.cursor_x)
    IN IF Len(E.cursors) > 0 THEN multicursor_insert_newline(E)
       ELSE Start(IF E.selection.active THEN selection_delete(E) ELSE E)

editor_delete_char_LogFirst(E) ==
    undo_log(E, UNDO_ROW_DELETE, E.cursor_y, E.cursor_x, E.cursor_y, 0, NULLCH, 0, 0, NULLSTR)

editor_delete_char(E) ==
    LET Left(E1) ==
            [editor_row_delete_char(E1, E1.cursor_y, E1.cursor_x - 1)
                EXCEPT !.cursor_x = @ - 1]
        \* the row is appended to the previous one and deleted
        Merge(E1, y) ==
            [editor_delete_row(
                 editor_row_append_string(
                     [E1 EXCEPT !.cursor_x = LineSize(E1, y - 1)], y - 1, RowAt(E1, y)),
                 y)
                EXCEPT !.cursor_y = y - 1]
    IN IF Len(E.cursors) > 0 THEN multicursor_delete_char(E)
       ELSE IF E.selection.active THEN selection_delete(E)
       ELSE IF E.cursor_y = Len(E.row) THEN E
       ELSE IF E.cursor_x = 0 /\ E.cursor_y = 0 THEN E
       ELSE IF ~InRows(E, E.cursor_y) THEN Crash(E)
       ELSE IF E.cursor_x > 0
       THEN Left(undo_log(E, UNDO_CHAR_DELETE, E.cursor_y, E.cursor_x, E.cursor_y, E.cursor_x - 1, CharAt(RowAt(E, E.cursor_y), E.cursor_x - 1), 0, 0, NULLSTR))
       ELSE Merge(undo_log(E, UNDO_ROW_DELETE, E.cursor_y, E.cursor_x, E.cursor_y, 0, NULLCH, 0, 0, NULLSTR),
                  E.cursor_y)

---------------------------------------------------------------------------
(* Cursor movement (soft wrap off, the default of editor_init) *)

editor_move_cursor(E, key) ==
    LET row_ok == E.cursor_y < Len(E.row)
        size == LineSize(E, E.cursor_y)
        \* snap the column to the end of the line the cursor is now on
        Snap(E1) ==
            IF E1.cursor_x > LineSize(E1, E1.cursor_y)
            THEN [E1 EXCEPT !.cursor_x = LineSize(E1, E1.cursor_y)] ELSE E1
    IN Snap(CASE key = "ARROW_LEFT" ->
                     IF E.cursor_x # 0 THEN [E EXCEPT !.cursor_x = @ - 1]
                     ELSE IF E.cursor_y > 0
                          THEN [E EXCEPT !.cursor_y = @ - 1,
                                         !.cursor_x = LineSize(E, E.cursor_y - 1)]
                          ELSE E
                [] key = "ARROW_RIGHT" ->
                     IF row_ok /\ E.cursor_x < size THEN [E EXCEPT !.cursor_x = @ + 1]
                     ELSE IF row_ok /\ E.cursor_x = size
                          THEN [E EXCEPT !.cursor_y = @ + 1, !.cursor_x = 0]
                          ELSE E
                [] key = "ARROW_UP" ->
                     IF E.cursor_y # 0 THEN [E EXCEPT !.cursor_y = @ - 1] ELSE E
                [] key = "ARROW_DOWN" ->
                     IF E.cursor_y < Len(E.row) THEN [E EXCEPT !.cursor_y = @ + 1] ELSE E
                [] OTHER -> E)

multicursor_move_single(E, cursor, key) ==
    CASE key = "ARROW_LEFT" ->
           IF cursor.column > 0 THEN Cur(cursor.line, cursor.column - 1)
           ELSE IF cursor.line > 0
                THEN Cur(cursor.line - 1,
                         IF cursor.line - 1 < Len(E.row)
                         THEN LineSize(E, cursor.line - 1) ELSE cursor.column)
                ELSE cursor
      [] key = "ARROW_RIGHT" ->
           IF cursor.line < Len(E.row)
           THEN IF cursor.column < LineSize(E, cursor.line)
                THEN Cur(cursor.line, cursor.column + 1)
                ELSE IF cursor.line < Len(E.row) - 1 THEN Cur(cursor.line + 1, 0)
                     ELSE cursor
           ELSE cursor
      [] key = "ARROW_UP" ->
           IF cursor.line > 0
           THEN Cur(cursor.line - 1,
                    IF cursor.line - 1 < Len(E.row)
                       /\ cursor.column > LineSize(E, cursor.line - 1)
                    THEN LineSize(E, cursor.line - 1) ELSE cursor.column)
           ELSE cursor
      [] key = "ARROW_DOWN" ->
           IF cursor.line < Len(E.row) - 1
           THEN Cur(cursor.line + 1,
                    IF cursor.line + 1 < Len(E.row)
                       /\ cursor.column > LineSize(E, cursor.line + 1)
                    THEN LineSize(E, cursor.line + 1) ELSE cursor.column)
           ELSE cursor
      [] OTHER -> cursor

multicursor_move_all(E, key) ==
    IF ~E.cursors_follow_primary THEN E
    ELSE multicursor_remove_duplicates(
             [E EXCEPT !.cursors = [i \in 1..Len(E.cursors) |->
                                       multicursor_move_single(E, E.cursors[i], key)]])

\* the column of the first character of row y that is neither a space nor a
\* tab; 0 for a missing, empty or all-whitespace row
get_first_nonwhitespace_col(E, y) ==
    LET chars == RowAt(E, y)
        RECURSIVE Skip(_)
        Skip(col) == IF col < Len(chars) /\ CharAt(chars, col) \in {" ", "\t"}
                     THEN Skip(col + 1) ELSE col
    IN IF ~InRows(E, y) \/ Len(chars) = 0 THEN 0
       ELSE IF Skip(0) >= Len(chars) THEN 0 ELSE Skip(0)

multicursor_apply_home_position(E, use_first_nonws) ==
    multicursor_remove_duplicates(
        [E EXCEPT !.cursors =
            [i \in 1..Len(E.cursors) |->
                Cur(E.cursors[i].line,
                    IF ~InRows(E, E.cursors[i].line) THEN 0
                    ELSE IF use_first_nonws
                         THEN get_first_nonwhitespace_col(E, E.cursors[i].line)
                         ELSE 0)]])

multicursor_apply_end_position(E) ==
    multicursor_remove_duplicates(
        [E EXCEPT !.cursors =
            [i \in 1..Len(E.cursors) |->
                Cur(E.cursors[i].line,
                    IF InRows(E, E.cursors[i].line)
                    THEN LineSize(E, E.cursors[i].line) ELSE 0)]])

---------------------------------------------------------------------------
(* Undo and redo *)

RECURSIVE InsertText(_, _, _)
\* the text is typed back character by character: a line feed through
\* editor_insert_newline, any other character through editor_insert_char
InsertText(E, text, i) ==
    IF i > Len(text) THEN E
    ELSE IF text[i] = LF THEN InsertText(editor_insert_newline(E), text, i + 1)
    ELSE InsertText(editor_insert_char(E, text[i]), text, i + 1)

SelectRange(E, e) ==
    [E EXCEPT !.selection = [active |-> TRUE,
                             anchor |-> Pos(e.cursor_row, e.cursor_col),
                             cursor |-> Pos(e.end_row, e.end_col)]]

\* the inverse of one logged operation (the switch of editor_undo)
undo_apply(E, e) ==
    CASE e.op_type = UNDO_CHAR_INSERT ->
           IF e.row_idx >= 0 /\ e.row_idx < Len(E.row) /\ e.char_pos >= 0
              /\ e.char_pos < LineSize(E, e.row_idx)
           THEN editor_update_row([E EXCEPT !.row[e.row_idx + 1] = RemoveAt(@, e.char_pos),
                                            !.dirty = Inc(E.dirty)], e.row_idx)
           ELSE E
      [] e.op_type \in {UNDO_CHAR_DELETE, UNDO_CHAR_DELETE_FWD} ->
           IF e.row_idx >= 0 /\ e.row_idx < Len(E.row) /\ e.char_data # NULLCH
              /\ e.char_pos >= 0
           THEN IF e.char_pos > LineSize(E, e.row_idx) THEN Crash(E)
                ELSE editor_update_row([E EXCEPT !.row[e.row_idx + 1] = InsertAt(@, e.char_pos, e.char_data),
                                                 !.dirty = Inc(E.dirty)], e.row_idx)
           ELSE E
      [] e.op_type = UNDO_ROW_INSERT ->
           IF e.row_idx >= 0 /\ e.row_idx < Len(E.row)
           THEN editor_delete_row(E, e.row_idx) ELSE E
      [] e.op_type = UNDO_ROW_DELETE ->
           IF e.row_content # NULLSTR /\ e.row_idx >= 0
           THEN editor_insert_row(E, e.row_idx, e.row_content) ELSE E
      [] e.op_type = UNDO_ROW_SPLIT ->
           IF e.row_idx >= 0 /\ e.row_idx < Len(E.row) - 1
           THEN editor_delete_row(
                    editor_update_row([E EXCEPT !.row[e.row_idx + 1] = @ \o RowAt(E, e.row_idx + 1)], e.row_idx),
                    e.row_idx + 1)
           ELSE E
      [] e.op_type = UNDO_SELECTION_DELETE ->
           IF e.multi_line # NULLSTR
           THEN InsertText([E EXCEPT !.cursor_y = e.cursor_row,
                                     !.cursor_x = e.cursor_col], e.multi_line, 1)
           ELSE E
      [] e.op_type = UNDO_PASTE ->
           IF e.multi_line # NULLSTR THEN selection_delete(SelectRange(E, e)) ELSE E
      [] OTHER -> E

\* the re-application of one logged operation (the switch of editor_redo);
\* gives the editor and the cursor position to leave (last_row, last_col)
redo_apply(E, e) ==
    CASE e.op_type = UNDO_CHAR_INSERT ->
           IF e.row_idx >= 0 /\ e.row_idx < Len(E.row) /\ e.char_data # NULLCH
              /\ e.char_pos >= 0
           THEN IF e.char_pos > LineSize(E, e.row_idx)
                THEN [e |-> Crash(E), row |-> e.cursor_row, col |-> e.cursor_col]
                ELSE [e |-> editor_update_row([E EXCEPT !.row[e.row_idx + 1] =
                                                            InsertAt(@, e.char_pos, e.char_data),
                                                        !.dirty = Inc(E.dirty)], e.row_idx),
                      row |-> e.cursor_row, col |-> e.char_pos + 1]
           ELSE [e |-> E, row |-> e.cursor_row, col |-> e.cursor_col]
      [] e.op_type \in {UNDO_CHAR_DELETE, UNDO_CHAR_DELETE_FWD} ->
           [e |-> IF e.row_idx >= 0 /\ e.row_idx < Len(E.row) /\ e.char_pos >= 0
                     /\ e.char_pos < LineSize(E, e.row_idx)
                  THEN editor_update_row([E EXCEPT !.row[e.row_idx + 1] = RemoveAt(@, e.char_pos),
                                                   !.dirty = Inc(E.dirty)], e.row_idx)
                  ELSE E,
            row |-> e.cursor_row, col |-> e.cursor_col]
      [] e.op_type = UNDO_ROW_INSERT ->
           [e |-> IF e.row_content # NULLSTR /\ e.row_idx >= 0
                  THEN editor_insert_row(E, e.row_idx, e.row_content) ELSE E,
            row |-> e.cursor_row, col |-> e.cursor_col]
      [] e.op_type = UNDO_ROW_DELETE ->
           [e |-> IF e.row_idx >= 0 /\ e.row_idx < Len(E.row)
                  THEN editor_delete_row(E, e.row_idx) ELSE E,
            row |-> e.cursor_row, col |-> e.cursor_col]
      [] e.op_type = UNDO_ROW_SPLIT ->
           [e |-> IF e.row_idx >= 0 /\ e.row_idx < Len(E.row) /\ e.char_pos >= 0
                  THEN editor_insert_newline([E EXCEPT !.cursor_y = e.row_idx,
                                                       !.cursor_x = e.char_pos])
                  ELSE E,
            row |-> e.cursor_row, col |-> e.cursor_col]
      [] e.op_type = UNDO_SELECTION_DELETE ->
           [e |-> IF e.multi_line # NULLSTR THEN selection_delete(SelectRange(E, e)) ELSE E,
            row |-> e.cursor_row, col |-> e.cursor_col]
      [] e.op_type = UNDO_PASTE ->
           IF e.multi_line # NULLSTR
           THEN LET At(E1) == [e |-> E1, row |-> E1.cursor_y, col |-> E1.cursor_x]
                IN At(InsertText([E EXCEPT !.cursor_y = e.cursor_row,
                                           !.cursor_x = e.cursor_col], e.multi_line, 1))
           ELSE [e |-> E, row |-> e.cursor_row, col |-> e.cursor_col]
      [] OTHER -> [e |-> E, row |-> e.cursor_row, col |-> e.cursor_col]

\* the cursor clamp at the end of editor_undo and editor_redo
RestoreCursor(E, r, c) ==
    LET Place(y) ==
            [E EXCEPT !.cursor_y = y,
                      !.cursor_x = IF y < Len(E.row) /\ c > LineSize(E, y)
                                   THEN LineSize(E, y) ELSE c]
    IN IF r < 0 THEN E
       ELSE Place(IF r >= Len(E.row)
                  THEN (IF Len(E.row) > 0 THEN Len(E.row) - 1 ELSE 0) ELSE r)

RECURSIVE undo_group(_, _, _)
\* entries of the target group, newest first
undo_group(E, i, target_group) ==
    IF i < 1 THEN E
    ELSE IF E.undo_stack[i].group_id # target_group
         THEN undo_group(E, i - 1, target_group)
         ELSE undo_group(undo_apply(E, E.undo_stack[i]), i - 1, target_group)

editor_undo_Unguarded(E) ==
    SetStatus([E EXCEPT !.undo_position = @ - 1], "Undo")

editor_undo(E) ==
    LET target_group == E.undo_position
        \* the cursor goes back to where the last entry undone was logged
        Group(members) ==
            RestoreCursor(
                undo_group([E EXCEPT !.undo_logging = TRUE], Len(E.undo_stack), target_group),
                IF members = {} THEN -1 ELSE E.undo_stack[Max(members)].cursor_row,
                IF members = {} THEN -1 ELSE E.undo_stack[Max(members)].cursor_col)
    IN IF E.undo_position <= 0 \/ E.undo_stack_capacity = 0
       THEN SetStatus(E, "Nothing to undo")
       ELSE SetStatus(
                [Group({i \in 1..Len(E.undo_stack) : E.undo_stack[i].group_id = target_group})
                    EXCEPT !.undo_position = @ - 1, !.undo_logging = FALSE],
                "Undo")

RECURSIVE redo_group(_, _, _, _, _)
\* entries of the target group, oldest first; carries last_row, last_col
redo_group(E, i, target_group, last_row, last_col) ==
    IF i > Len(E.undo_stack) THEN [e |-> E, row |-> last_row, col |-> last_col]
    ELSE IF E.undo_stack[i].group_id # target_group
         THEN redo_group(E, i + 1, target_group, last_row, last_col)
         ELSE LET Rest(r) == redo_group(r.e, i + 1, target_group, r.row, r.col)
              IN Rest(redo_apply(E, E.undo_stack[i]))

editor_redo(E) ==
    LET Restore(r) == RestoreCursor(r.e, r.row, r.col)
    IN IF E.undo_position >= E.undo_group_id \/ E.undo_stack_capacity = 0
       THEN SetStatus(E, "Nothing to redo")
       ELSE SetStatus(
                [Restore(redo_group([E EXCEPT !.undo_position = @ + 1, !.undo_logging = TRUE],
                                    1, E.undo_position + 1, -1, -1))
                    EXCEPT !.undo_logging = FALSE],
                "Redo")

---------------------------------------------------------------------------
(* Clipboard *)

\* editor_paste with the system clipboard unchanged since the last copy
editor_paste(E, text) ==
    LET \* one entry for the whole paste, from where it started to where it ended
        Log(E2, start_row, start_col) ==
            undo_log([E2 EXCEPT !.undo_logging = FALSE], UNDO_PASTE, start_row, start_col, start_row, start_col, NULLCH, E2.cursor_y, E2.cursor_x, text)
        Insert(E1) ==
            Log(InsertText([E1 EXCEPT !.undo_logging = TRUE], text, 1),
                E1.cursor_y, E1.cursor_x)
    IN IF text = NULLSTR THEN SetStatus(E, "Clipboard empty")
       ELSE SetStatus(Insert(IF E.selection.active THEN selection_delete(E) ELSE E),
                      "Pasted")

---------------------------------------------------------------------------
(* Line operations *)

\* the restore loop that follows multicursor_mark_primary: the first
\* collected cursor at the primary's position becomes the primary, the
\* others fill editor.cursors in collected order
restore_marked(E, orig, new) ==
    LET p0 == FirstAt(orig, E.cursor_y, E.cursor_x)
        p == IF p0 = 0 THEN 1 ELSE p0
        others == SubSeq(new, 1, p - 1) \o SubSeq(new, p + 1, Len(new))
    IN [E EXCEPT !.cursor_y = new[p].line, !.cursor_x = new[p].column,
                 !.cursors = SubSeq(others, 1, Len(E.cursors))]

RECURSIVE duplicate_each(_, _, _, _, _)
\* row->line_size is read through a pointer taken before editor_insert_row
\* reallocated the row array: when the array moved (stale) the read is of
\* freed memory, here a 0 the allocator left there
duplicate_each(E, all, i, last_line, stale) ==
    IF i > Len(all) THEN [e |-> E, all |-> all]
    ELSE LET line == all[i].line
             size == IF stale THEN 0 ELSE LineSize(E, line)
             \* cursors on the duplicated line move to the copy
             OnCopy(below) ==
                 [j \in 1..Len(all) |->
                     IF below[j].line = line
                     THEN Cur(line + 1, IF below[j].column > size
                                        THEN size ELSE below[j].column)
                     ELSE below[j]]
         IN IF line = last_line \/ line < 0 \/ line >= Len(E.row)
            THEN duplicate_each(E, all, i + 1, last_line, stale)
            ELSE duplicate_each(
                     MarkDirty(editor_insert_row(E, line + 1, RowAt(E, line))),
                     OnCopy([j \in 1..Len(all) |->
                                IF all[j].line > line
                                THEN Cur(all[j].line + 1, all[j].column) ELSE all[j]]),
                     i + 1, line, stale)

editor_duplicate_line(E, stale) ==
    LET Restore(all, done) ==
            multicursor_remove_duplicates(restore_marked(done.e, all, done.all))
        Batch(all) == Restore(all, duplicate_each(E, all, 1, -1, stale))
    IN IF E.cursor_y >= Len(E.row) THEN E
       ELSE IF Len(E.cursors) > 0 THEN Batch(multicursor_collect_all(E, TRUE))
       ELSE [MarkDirty(editor_insert_row(E, E.cursor_y + 1, RowAt(E, E.cursor_y)))
                EXCEPT !.cursor_y = E.cursor_y + 1]

RECURSIVE delete_line_each(_, _, _, _)
delete_line_each(E, all, i, last_line) ==
    IF i > Len(all) THEN [e |-> E, all |-> all]
    ELSE LET line == all[i].line
             \* cursors below move up; cursors on the line stay, clamped
             Shift(E1, target_line) ==
                 delete_line_each(
                     E1,
                     [j \in 1..Len(all) |->
                         IF all[j].line > line
                         THEN Cur(all[j].line - 1, all[j].column)
                         ELSE IF all[j].line = line
                         THEN Cur(IF target_line < 0 THEN 0 ELSE target_line,
                                  IF target_line >= 0 /\ target_line < Len(E1.row)
                                  THEN (IF all[j].column > LineSize(E1, target_line)
                                        THEN LineSize(E1, target_line)
                                        ELSE all[j].column)
                                  ELSE 0)
                         ELSE all[j]],
                     i + 1, line)
             Deleted(E1) ==
                 Shift(E1, IF line >= Len(E1.row) THEN Len(E1.row) - 1 ELSE line)
         IN IF line = last_line \/ line < 0 \/ line >= Len(E.row)
            THEN delete_line_each(E, all, i + 1, last_line)
            ELSE Deleted(MarkDirty(editor_delete_row(E, line)))

editor_delete_line(E) ==
    LET Restore(all, done) ==
            multicursor_remove_duplicates(restore_marked(done.e, all, done.all))
        Batch(all) == Restore(all, delete_line_each(E, all, 1, -1))
        Place(E1, y) ==
            MarkDirty([E1 EXCEPT !.cursor_y = y,
                                 !.cursor_x = IF y < Len(E1.row)
                                              THEN (IF @ > LineSize(E1, y)
                                                    THEN LineSize(E1, y) ELSE @)
                                              ELSE 0])
        Clamp(E1) ==
            Place(E1, IF E1.cursor_y >= Len(E1.row) /\ Len(E1.row) > 0
                      THEN Len(E1.row) - 1 ELSE E1.cursor_y)
    IN IF E.cursor_y >= Len(E.row) THEN E
       ELSE IF Len(E.cursors) > 0 THEN Batch(multicursor_collect_all(E, TRUE))
       ELSE Clamp(editor_delete_row(E, E.cursor_y))

---------------------------------------------------------------------------
(* Adding and clearing secondary cursors *)

multicursor_add(E, line, column) ==
    IF (E.cursor_y = line /\ E.cursor_x = column)
       \/ \E i \in 1..Len(E.cursors) : E.cursors[i] = Cur(line, column)
    THEN [e |-> E, added |-> FALSE]
    ELSE [e |-> [E EXCEPT !.cursors = Append(@, Cur(line, column))], added |-> TRUE]

AddNear(E, target_line) ==
    LET Added(r) ==
            [(IF r.added THEN SetStatus(r.e, "Added cursor") ELSE r.e)
                EXCEPT !.cursors_follow_primary = TRUE, !.allow_primary_overlap = FALSE]
    IN Added(multicursor_add(E, target_line,
                             IF target_line < Len(E.row) /\ E.cursor_x > LineSize(E, target_line)
                             THEN LineSize(E, target_line) ELSE E.cursor_x))

multicursor_add_above(E) ==
    IF E.cursor_y <= 0 THEN E ELSE AddNear(E, E.cursor_y - 1)

multicursor_add_below(E) ==
    IF E.cursor_y >= Len(E.row) - 1 THEN E ELSE AddNear(E, E.cursor_y + 1)

multicursor_add_at_primary(E) ==
    IF \E i \in 1..Len(E.cursors) : E.cursors[i] = Cur(E.cursor_y, E.cursor_x)
    THEN SetStatus(E, "Cursor already placed here")
    ELSE SetStatus([E EXCEPT !.cursors = Append(@, Cur(E.cursor_y, E.cursor_x)),
                             !.cursors_follow_primary = FALSE,
                             !.allow_primary_overlap = TRUE],
                   "Placed cursor")

multicursor_add_at_primary_and_advance(E) ==
    LET Advance(E1) ==
            IF E1.cursor_y < Len(E1.row) - 1
            THEN LET y == E1.cursor_y + 1
                 IN [E1 EXCEPT !.cursor_y = y,
                               !.cursor_x = IF y < Len(E1.row) /\ @ > LineSize(E1, y)
                                            THEN LineSize(E1, y) ELSE @]
            ELSE E1
    IN SetStatus([multicursor_remove_duplicates(Advance(multicursor_add_at_primary(E)))
                     EXCEPT !.cursors_follow_primary = TRUE,
                            !.allow_primary_overlap = FALSE],
                 "Placed and moved")

multicursor_clear(E) == [E EXCEPT !.cursors = <<>>]

---------------------------------------------------------------------------
(* The editor after editor_init and the opening of a file *)

NoDedup == [ran |-> FALSE, before |-> 0, first |-> 0, cursors |-> <<>>, line |-> 0, column |-> 0,
            overlap |-> FALSE]

\* the statics of editor_find_callback before the first search
NoFind == [current_result_index |-> -1, direction |-> 1, last_query |-> NULLSTR,
           saved_hl_line |-> 0, saved_hl |-> NULLSTR]

\* the locals of editor_prompt and editor_find while no prompt is open;
\* result is what editor_prompt returned, NULLSTR after Escape
NoPrompt == [buffer |-> <<>>, saved_cx |-> 0, saved_cy |-> 0, result |-> NULLSTR]

editor_init(rows, y, x, cs) ==
    [row |-> rows, open_comment |-> [i \in 1..Len(rows) |-> FALSE], syntax |-> FALSE,
     wrap |-> [i \in 1..Len(rows) |-> NoWrap], g_click_x |-> -1, bracket |-> NoBracket,
     g_bracket |-> [ran |-> FALSE, rows |-> <<>>, cursor_y |-> 0, cursor_x |-> 0],
     cursor_x |-> x, cursor_y |-> y,
     cursors |-> cs, cursors_follow_primary |-> TRUE, allow_primary_overlap |-> FALSE,
     last_key_was_home |-> FALSE,
     selection |-> [active |-> FALSE, anchor |-> Pos(0, 0), cursor |-> Pos(0, 0)],
     dirty |-> 0,
     undo_stack |-> <<>>, undo_stack_capacity |-> 0,
     undo_group_id |-> 0, undo_position |-> 0, undo_logging |-> FALSE,
     last_edit_time |-> 0,
     menu_open |-> -1, menu_selected_item |-> 0, menu_bar_visible |-> TRUE,
     status_message |-> "", crashed |-> FALSE,
     g_nlogs |-> 0, g_dedup |-> NoDedup,
     search_results |-> <<>>, hl_match |-> {}, find |-> NoFind, prompt |-> NoPrompt]

\* capacity of the undo stack after count appends to an empty log: 256,
\* doubled each time an append finds the stack full below the maximum
RECURSIVE GrownCapacity(_, _)
GrownCapacity(capacity, count) ==
    IF count > capacity /\ capacity < UNDO_MAX_ENTRIES
    THEN GrownCapacity(2 * capacity, count) ELSE capacity

\* the state after typing count times "a" into an empty buffer, a pause
\* longer than the group timeout after every group_size keys (0: no pause
\* at all); the last key is typed at time 0, the earlier groups before it
editor_after_typing(count, group_size) ==
    LET groups == IF group_size = 0 THEN 1
                  ELSE (count + group_size - 1) \div group_size
        GroupOf(i) == IF group_size = 0 THEN 1 ELSE ((i - 1) \div group_size) + 1
        Entry(i) ==
            [group_id |-> GroupOf(i), op_type |-> UNDO_CHAR_INSERT,
             cursor_row |-> 0, cursor_col |-> i - 1, row_idx |-> 0, char_pos |-> i - 1,
             end_row |-> 0, end_col |-> 0, row_content |-> NULLSTR,
             char_data |-> "a", multi_line |-> NULLSTR,
             g_seq |-> i,
             g_time |-> 0 - (groups - GroupOf(i)) * (UNDO_GROUP_TIMEOUT_MS + 1),
             g_first |-> IF group_size = 0 THEN i = 1 ELSE (i - 1) % group_size = 0]
    IN [editor_init(<< [i \in 1..count |-> "a"] >>, 0, count, <<>>)
           EXCEPT !.dirty = IncBy(0, count + 1),
                  !.undo_stack = [i \in 1..count |-> Entry(i)],
                  !.undo_stack_capacity = GrownCapacity(UNDO_INITIAL_CAPACITY, count),
                  !.undo_group_id = groups,
                  !.undo_position = groups,
                  !.g_nlogs = count]

Buffers == { <<>>,
             << <<"a", "b">>, <<"c">> >>,
             << <<" ", "{">>, <<" ">> >> }

\* the buffer positions of rows: (y, x) with x <= length of row y, and (row_count, 0)
Positions(rows) ==
    {Cur(y, x) : y \in 0..Len(rows), x \in 0..2} \cap
    {c \in [line : 0..Len(rows), column : 0..2] :
        c.column <= (IF c.line < Len(rows) THEN Len(rows[c.line + 1]) ELSE 0)}

\* the printable keys of a session: comment punctuation on a C file
Chars == IF editor.syntax THEN {"/", "*"} ELSE {"a", "}"}
ArrowKeys == {"ARROW_LEFT", "ARROW_RIGHT", "ARROW_UP", "ARROW_DOWN"}

---------------------------------------------------------------------------
(* Input decoding: bytes are one-character strings, ESC the byte 0x1b; a   *)
(* read() of one byte fails when no byte is waiting (VMIN 0, VTIME 1)      *)

ESC == "ESC"
CHAR_ESCAPE == ESC
Digits == {"0", "1", "2", "3", "4", "5", "6", "7", "8", "9"}

TildeKey_Swapped(n) ==
    CASE n = "1" -> "HOME_KEY"
      [] n = "3" -> "DEL_KEY"
      [] n = "4" -> "END_KEY"
      [] n = "5" -> "PAGE_UP"
      [] n = "6" -> "PAGE_DOWN"
      [] n = "7" -> "END_KEY"
      [] n = "8" -> "HOME_KEY"
      [] OTHER -> CHAR_ESCAPE

\* the switch on escape_sequence[1] of ESC [ n ~
TildeKey(n) ==
    CASE n = "1" -> "HOME_KEY"
      [] n = "3" -> "DEL_KEY"
      [] n = "4" -> "END_KEY"
      [] n = "5" -> "PAGE_UP"
      [] n = "6" -> "PAGE_DOWN"
      [] n = "7" -> "HOME_KEY"
      [] n = "8" -> "END_KEY"
      [] OTHER -> CHAR_ESCAPE

\* ESC [ < button ; column ; row M/m, the bytes after the "<"
parse_sgr_mouse_event(in) ==
    LET RECURSIVE Fill(_, _)
        \* reads until M or m, at most 31 bytes; a failed read returns ESC
        Fill(buffer, rest) ==
            IF Len(buffer) >= 31 THEN [buffer |-> buffer, rest |-> rest, ok |-> TRUE]
            ELSE IF rest = <<>> THEN [buffer |-> buffer, rest |-> rest, ok |-> FALSE]
            ELSE IF Head(rest) \in {"M", "m"}
                 THEN [buffer |-> Append(buffer, Head(rest)), rest |-> Tail(rest), ok |-> TRUE]
                 ELSE Fill(Append(buffer, Head(rest)), Tail(rest))
        \* sscanf "%d;%d;%d" finds three numbers
        RECURSIVE Number(_, _)
        Number(b, i) == IF i <= Len(b) /\ b[i] \in Digits THEN Number(b, i + 1) ELSE i
        Three(b) ==
            LET a == Number(b, 1)
                c == Number(b, a + 1)
                d == Number(b, c + 1)
            IN /\ a > 1 /\ a <= Len(b) /\ b[a] = ";"
               /\ c > a + 1 /\ c <= Len(b) /\ b[c] = ";"
               /\ d > c + 1
        Parsed(f) ==
            [key |-> IF f.ok /\ Three(f.buffer) THEN "MOUSE_EVENT" ELSE CHAR_ESCAPE,
             rest |-> f.rest]
    IN Parsed(Fill(<<>>, in))

\* the key code and the bytes left unread
editor_read_key(in) ==
    LET Key(k, rest) == [key |-> k, rest |-> rest]
        AltLetter(c) ==
            CASE c \in {"t", "T"} -> "ALT_T"
              [] c \in {"l", "L"} -> "ALT_L"
              [] c \in {"q", "Q"} -> "ALT_Q"
              [] c \in {"j", "J"} -> "ALT_J"
              [] c \in {"s", "S"} -> "ALT_S"
              [] c \in {"r", "R"} -> "ALT_R"
              [] c \in {"n", "N"} -> "ALT_N"
              [] c \in {"w", "W"} -> "ALT_W"
              [] c \in {"c", "C"} -> "ALT_C"
              [] c \in {"v", "V"} -> "ALT_V"
              [] c \in {"z", "Z"} -> "ALT_Z"
              [] c \in {"m", "M"} -> "ALT_M"
              [] c = "]" -> "ALT_CLOSE_BRACKET"
              [] OTHER -> ""
        \* ESC [ 1 ; seq3 seq4
        Modified(seq3, seq4) ==
            CASE seq3 = "2" /\ seq4 = "A" -> "SHIFT_ARROW_UP"
              [] seq3 = "2" /\ seq4 = "B" -> "SHIFT_ARROW_DOWN"
              [] seq3 = "2" /\ seq4 = "C" -> "SHIFT_ARROW_RIGHT"
              [] seq3 = "2" /\ seq4 = "D" -> "SHIFT_ARROW_LEFT"
              [] seq3 = "2" /\ seq4 = "H" -> "SHIFT_HOME"
              [] seq3 = "2" /\ seq4 = "F" -> "SHIFT_END"
              [] seq3 = "3" /\ seq4 = "A" -> "ALT_UP"
              [] seq3 = "3" /\ seq4 = "B" -> "ALT_DOWN"
              [] seq3 = "4" /\ seq4 = "A" -> "ALT_SHIFT_UP"
              [] seq3 = "4" /\ seq4 = "B" -> "ALT_SHIFT_DOWN"
              [] seq3 = "5" /\ seq4 = "C" -> "CTRL_ARROW_RIGHT"
              [] seq3 = "5" /\ seq4 = "D" -> "CTRL_ARROW_LEFT"
              [] OTHER -> CHAR_ESCAPE
        Plain(e1) ==
            CASE e1 = "A" -> "ARROW_UP"
              [] e1 = "B" -> "ARROW_DOWN"
              [] e1 = "C" -> "ARROW_RIGHT"
              [] e1 = "D" -> "ARROW_LEFT"
              [] e1 = "H" -> "HOME_KEY"
              [] e1 = "F" -> "END_KEY"
              [] e1 = "Z" -> "SHIFT_TAB"
              [] OTHER -> CHAR_ESCAPE
        \* two more bytes, seq3 and seq4
        TwoMore(e1, rest) ==
            IF rest = <<>> THEN Key(CHAR_ESCAPE, rest)
            ELSE IF Tail(rest) = <<>> THEN Key(CHAR_ESCAPE, Tail(rest))
            ELSE Key(IF e1 = "3"
                     THEN IF rest[1] = "5" /\ rest[2] = "~" THEN "CTRL_DELETE" ELSE CHAR_ESCAPE
                     ELSE Modified(rest[1], rest[2]),
                     Tail(Tail(rest)))
        \* ESC [ digit: escape_sequence[2] is read next
        Numbered(e1, rest) ==
            IF rest = <<>> THEN Key(CHAR_ESCAPE, rest)
            ELSE IF Head(rest) = "~" THEN Key(TildeKey(e1), Tail(rest))
            ELSE IF e1 = "2" /\ Head(rest) = "1"
                 THEN IF Tail(rest) = <<>> THEN Key(CHAR_ESCAPE, Tail(rest))
                      ELSE Key(IF rest[2] = "~" THEN "F10_KEY" ELSE CHAR_ESCAPE,
                               Tail(Tail(rest)))
            ELSE IF e1 \in {"1", "3"} /\ Head(rest) = ";" THEN TwoMore(e1, Tail(rest))
            ELSE Key(CHAR_ESCAPE, Tail(rest))
        \* escape_sequence[0] and [1] are read
        Sequence(e0, e1, rest) ==
            IF e0 = "["
            THEN IF e1 = "<" THEN parse_sgr_mouse_event(rest)
                 ELSE IF e1 \in Digits THEN Numbered(e1, rest)
                 ELSE Key(Plain(e1), rest)
            ELSE IF e0 = "O"
                 THEN Key(CASE e1 = "H" -> "HOME_KEY" [] e1 = "F" -> "END_KEY"
                            [] OTHER -> CHAR_ESCAPE, rest)
                 ELSE Key(CHAR_ESCAPE, rest)
        Escape(rest) ==
            IF rest = <<>> THEN Key(CHAR_ESCAPE, rest)
            ELSE IF AltLetter(Head(rest)) # "" THEN Key(AltLetter(Head(rest)), Tail(rest))
            ELSE IF Tail(rest) = <<>>
                 THEN Key(IF Head(rest) = "[" THEN "ALT_OPEN_BRACKET" ELSE CHAR_ESCAPE,
                          Tail(rest))
            ELSE Sequence(rest[1], rest[2], Tail(Tail(rest)))
    IN IF in = <<>> THEN Key("-1", in)
       ELSE IF Head(in) = CHAR_ESCAPE THEN Escape(Tail(in))
       ELSE Key(Head(in), Tail(in))

---------------------------------------------------------------------------
(* Incremental search: editor.hl_match holds the cells <<row, render       *)
(* column>> of row->highlight whose class is HL_MATCH                      *)

CR == "\r"
BACKSPACE == "DEL"     \* the byte 127
CTRL_H == "^H"
CTRL_F == "^F"
ControlBytes == {"\t", LF, CR, ESC, BACKSPACE, CTRL_H, CTRL_F}

KeyCodes ==
    {"ARROW_LEFT", "ARROW_RIGHT", "ARROW_UP", "ARROW_DOWN", "DEL_KEY", "HOME_KEY",
     "END_KEY", "PAGE_UP", "PAGE_DOWN", "ALT_T", "ALT_L", "ALT_Q", "ALT_J", "ALT_S",
     "ALT_R", "ALT_N", "ALT_W", "ALT_C", "ALT_V", "MOUSE_EVENT", "SHIFT_ARROW_UP",
     "SHIFT_ARROW_DOWN", "SHIFT_ARROW_LEFT", "SHIFT_ARROW_RIGHT", "SHIFT_HOME",
     "SHIFT_END", "SHIFT_TAB", "CTRL_ARROW_LEFT", "CTRL_ARROW_RIGHT", "CTRL_BACKSPACE",
     "CTRL_DELETE", "ALT_SHIFT_UP", "ALT_SHIFT_DOWN", "ALT_UP", "ALT_DOWN", "ALT_Z",
     "ALT_OPEN_BRACKET", "ALT_CLOSE_BRACKET", "ALT_M", "F10_KEY"}

\* key >= 0 && !iscntrl(key) && key < ASCII_MAX
IsPrintable(key) == key \notin ControlBytes \cup KeyCodes \cup {"-1"}

\* every occurrence of query in the render string of every row, row by row
\* and from left to right; the search goes on one byte after each match
simple_search(E, query) ==
    LET RECURSIVE Line(_, _, _)
        Line(line_num, search_pos, results) ==
            IF search_pos + Len(query) > Len(render(E.row[line_num + 1])) THEN results
            ELSE Line(line_num, search_pos + 1,
                      IF StartsAt(render(E.row[line_num + 1]), search_pos, query)
                      THEN Append(results, [line_number |-> line_num,
                                            match_offset |-> search_pos,
                                            match_length |-> Len(query)])
                      ELSE results)
        RECURSIVE Lines(_, _)
        Lines(line_num, results) ==
            IF line_num >= Len(E.row) THEN results
            ELSE Lines(line_num + 1, Line(line_num, 0, results))
    IN [E EXCEPT !.search_results = IF Len(query) = 0 THEN <<>> ELSE Lines(0, <<>>)]

\* the highlight classes of a row as memcpy copies them, and the cells of
\* the row after they are copied back
SavedHighlight(E, line) ==
    [c \in 1..Len(render(E.row[line + 1])) |->
        IF <<line, c - 1>> \in E.hl_match THEN "HL_MATCH" ELSE "HL_NORMAL"]

editor_find_callback_NoWrap(E, query, key) ==
    LET Restore(E1) ==
            IF E1.find.saved_hl = NULLSTR THEN E1
            ELSE [E1 EXCEPT
                    !.hl_match = {cell \in @ : cell[1] # E1.find.saved_hl_line} \cup
                                 {<<E1.find.saved_hl_line, c - 1>> :
                                     c \in {k \in 1..Len(E1.find.saved_hl) :
                                               E1.find.saved_hl[k] = "HL_MATCH"}},
                    !.find.saved_hl = NULLSTR]
        Exit(E1) == [E1 EXCEPT !.find.current_result_index = -1,
                               !.find.direction = 1,
                               !.find.last_query = NULLSTR]
        Navigate(E1) ==
            IF key \in {"ARROW_RIGHT", "ARROW_DOWN"} THEN [E1 EXCEPT !.find.direction = 1]
            ELSE IF key \in {"ARROW_LEFT", "ARROW_UP"} THEN [E1 EXCEPT !.find.direction = -1]
            ELSE [E1 EXCEPT !.find.current_result_index = -1, !.find.direction = 1]
        Search(E1) ==
            IF E1.find.last_query = NULLSTR \/ E1.find.last_query # query
            THEN [simple_search(E1, query) EXCEPT !.find.last_query = query,
                                                  !.find.current_result_index = -1]
            ELSE E1
        Index(current_result_index, direction, search_result_count) ==
            IF current_result_index = -1
            THEN IF direction = 1 THEN 0 ELSE search_result_count - 1
            ELSE IF current_result_index + direction < 0 THEN 0
            ELSE IF current_result_index + direction >= search_result_count
                 THEN search_result_count - 1
            ELSE current_result_index + direction
        Apply(E1, index, result) ==
            [E1 EXCEPT !.find.current_result_index = index,
                       !.cursor_y = result.line_number,
                       !.cursor_x = editor_row_render_to_cursor(
                                        E1.row[result.line_number + 1], result.match_offset),
                       !.find.saved_hl_line = result.line_number,
                       !.find.saved_hl = SavedHighlight(E1, result.line_number),
                       !.hl_match = @ \cup
                           {<<result.line_number, c>> :
                               c \in result.match_offset ..
                                     (result.match_offset + result.match_length - 1)}]
        Select(E1, index) == Apply(E1, index, E1.search_results[index + 1])
        Results(E1) ==
            IF Len(E1.search_results) = 0 THEN E1
            ELSE Select(E1, Index(E1.find.current_result_index, E1.find.direction,
                                  Len(E1.search_results)))
    IN IF key = "-1" THEN E
       ELSE IF key \in {CR, CHAR_ESCAPE} THEN Exit(Restore(E))
       ELSE Results(Search(Navigate(Restore(E))))

\* called by editor_prompt after every key it read, with the text typed so far
editor_find_callback(E, query, key) ==
    LET Restore(E1) ==
            IF E1.find.saved_hl = NULLSTR THEN E1
            ELSE [E1 EXCEPT
                    !.hl_match = {cell \in @ : cell[1] # E1.find.saved_hl_line} \cup
                                 {<<E1.find.saved_hl_line, c - 1>> :
                                     c \in {k \in 1..Len(E1.find.saved_hl) :
                                               E1.find.saved_hl[k] = "HL_MATCH"}},
                    !.find.saved_hl = NULLSTR]
        Exit(E1) == [E1 EXCEPT !.find.current_result_index = -1,
                               !.find.direction = 1,
                               !.find.last_query = NULLSTR]
        Navigate(E1) ==
            IF key \in {"ARROW_RIGHT", "ARROW_DOWN"} THEN [E1 EXCEPT !.find.direction = 1]
            ELSE IF key \in {"ARROW_LEFT", "ARROW_UP"} THEN [E1 EXCEPT !.find.direction = -1]
            ELSE [E1 EXCEPT !.find.current_result_index = -1, !.find.direction = 1]
        Search(E1) ==
            IF E1.find.last_query = NULLSTR \/ E1.find.last_query # query
            THEN [simple_search(E1, query) EXCEPT !.find.last_query = query,
                                                  !.find.current_result_index = -1]
            ELSE E1
        Index(current_result_index, direction, search_result_count) ==
            IF current_result_index = -1
            THEN IF direction = 1 THEN 0 ELSE search_result_count - 1
            ELSE IF current_result_index + direction < 0 THEN search_result_count - 1
            ELSE IF current_result_index + direction >= search_result_count THEN 0
            ELSE current_result_index + direction
        Apply(E1, index, result) ==
            [E1 EXCEPT !.find.current_result_index = index,
                       !.cursor_y = result.line_number,
                       !.cursor_x = editor_row_render_to_cursor(
                                        E1.row[result.line_number + 1], result.match_offset),
                       !.find.saved_hl_line = result.line_number,
                       !.find.saved_hl = SavedHighlight(E1, result.line_number),
                       !.hl_match = @ \cup
                           {<<result.line_number, c>> :
                               c \in result.match_offset ..
                                     (result.match_offset + result.match_length - 1)}]
        Select(E1, index) == Apply(E1, index, E1.search_results[index + 1])
        Results(E1) ==
            IF Len(E1.search_results) = 0 THEN E1
            ELSE Select(E1, Index(E1.find.current_result_index, E1.find.direction,
                                  Len(E1.search_results)))
    IN IF key = "-1" THEN E
       ELSE IF key \in {CR, CHAR_ESCAPE} THEN Exit(Restore(E))
       ELSE Results(Search(Navigate(Restore(E))))

SearchPrompt == "Search: %s (Use ESC/Arrows/Enter)"

\* one turn of the loop of editor_prompt after editor_read_key returned key;
\* prompt.result is "reading" while the loop goes on, the buffer when Enter
\* ended it and NULLSTR when Escape did
editor_prompt(E, key) ==
    LET Call(E1, buffer) ==
            editor_find_callback([E1 EXCEPT !.prompt.buffer = buffer], buffer, key)
        Again(E1) == SetStatus(E1, SearchPrompt)
        Return(E1, result) == [E1 EXCEPT !.prompt.result = result]
    IN IF key \in {"DEL_KEY", CTRL_H, BACKSPACE}
       THEN Again(Call(E, IF Len(E.prompt.buffer) # 0
                          THEN SubSeq(E.prompt.buffer, 1, Len(E.prompt.buffer) - 1)
                          ELSE E.prompt.buffer))
       ELSE IF key = CHAR_ESCAPE
       THEN Return(Call(SetStatus(E, ""), E.prompt.buffer), NULLSTR)
       ELSE IF key = CR
       THEN IF Len(E.prompt.buffer) # 0
            THEN Return(Call(SetStatus(E, ""), E.prompt.buffer), E.prompt.buffer)
            ELSE Again(Call(E, E.prompt.buffer))
       ELSE IF IsPrintable(key) THEN Again(Call(E, Append(E.prompt.buffer, key)))
       ELSE Again(Call(E, E.prompt.buffer))

\* editor_find up to the first read of its prompt
editor_find_begin(E) ==
    SetStatus([E EXCEPT !.prompt = [buffer |-> <<>>, saved_cx |-> E.cursor_x,
                                    saved_cy |-> E.cursor_y, result |-> <<"reading">>]],
              SearchPrompt)

\* editor_find after its prompt returned: Escape restores the cursor
editor_find_end(E) ==
    IF E.prompt.result # NULLSTR THEN E
    ELSE [E EXCEPT !.cursor_x = E.prompt.saved_cx, !.cursor_y = E.prompt.saved_cy]

---------------------------------------------------------------------------
(* History of the session: what the properties below compare against *)

ListedEdits == {"char", "enter", "backspace", "paste"}
Neutral == {"arrow", "shift_arrow", "select_all", "copy", "escape"}

\* phase follows the shape "edits, then undo until none is left, then redo":
\* "init" no edit yet, "edit" only listed edits so far, "undo" only undos
\* since, "redo" only redos since a complete undo, "other" anything else
NextPhase(key) ==
    CASE hist.phase = "init" ->
            IF key \in ListedEdits THEN "edit"
            ELSE IF key \in Neutral \cup {"undo", "redo"} THEN "init" ELSE "other"
      [] hist.phase = "edit" ->
            IF key \in ListedEdits \cup Neutral THEN "edit"
            ELSE IF key = "undo" THEN "undo" ELSE "other"
      [] hist.phase = "undo" ->
            IF key = "undo" THEN "undo"
            ELSE IF key = "redo" /\ editor.undo_position = 0 THEN "redo" ELSE "other"
      [] hist.phase = "redo" -> IF key = "redo" THEN "redo" ELSE "other"
      [] OTHER -> "other"

BatchKeys == {"char", "enter", "backspace"}

NextHist(key, E) ==
    [hist EXCEPT !.phase = NextPhase(key),
                 !.post = IF hist.phase = "edit" /\ key = "undo" THEN editor.row ELSE @,
                 !.pre_rows = editor.row,
                 !.pre = IF hist.track THEN editor ELSE @,
                 !.batch = key \in BatchKeys /\ Len(editor.cursors) > 0
                           /\ E.g_nlogs > editor.g_nlogs,
                 !.presses = IF key = "quit" THEN @ + 1 ELSE 0]

HistInit(E, budget) ==
    [budget |-> budget, rows0 |-> E.row, phase |-> "init", post |-> E.row, pre_rows |-> E.row,
     batch |-> FALSE, ch |-> "", presses |-> 0, track |-> FALSE, pre |-> <<>>, read |-> <<>>,
     signals |-> 0, unhandled |-> FALSE, keys |-> <<>>]

---------------------------------------------------------------------------
(* editor_process_keypress: one action per key *)

Running == ~exited /\ ~editor.crashed /\ steps < hist.budget

\* a key with no menu open, or one that closes the open menu and is then
\* handled normally (the default branch of the menu switch)
CloseMenu(E) == [E EXCEPT !.menu_open = -1]

\* every handler that reaches the end of editor_process_keypress
HandledKey(name, E) ==
    /\ editor' = [E EXCEPT !.last_key_was_home = (name = "home")]
    /\ last_key' = name
    /\ steps' = steps + 1
    /\ quit_times' = MITER_QUIT_TIMES
    /\ hist' = NextHist(name, E)
    /\ UNCHANGED <<clock, exited>>

Handled(name, E) == HandledKey(name, E) /\ UNCHANGED process

\* a handler that returns early: quit_times is not reset
ReturnedKey(name, E) ==
    /\ editor' = E
    /\ last_key' = name
    /\ steps' = steps + 1
    /\ hist' = NextHist(name, E)
    /\ UNCHANGED <<clock, exited, quit_times, clipboard_content>>

Returned(name, E) == ReturnedKey(name, E) /\ UNCHANGED process

\* default: editor_insert_char(key)
InsertKey(c) ==
    /\ LET E == editor_insert_char(CloseMenu(editor), c) IN
         /\ editor' = [E EXCEPT !.last_key_was_home = FALSE]
         /\ hist' = [NextHist("char", E) EXCEPT !.ch = c]
    /\ last_key' = "char"
    /\ steps' = steps + 1
    /\ quit_times' = MITER_QUIT_TIMES
    /\ UNCHANGED <<clock, exited, clipboard_content>>

KeyChar ==
    /\ Running
    /\ \E c \in Chars : InsertKey(c)
    /\ UNCHANGED process

KeyEnter ==
    /\ Running
    /\ editor.menu_open < 0
    /\ Handled("enter", editor_insert_newline(editor))
    /\ UNCHANGED clipboard_content

KeyBackspace ==
    /\ Running
    /\ Handled("backspace", editor_delete_char(CloseMenu(editor)))
    /\ UNCHANGED clipboard_content

KeyDelete ==
    /\ Running
    /\ Handled("delete",
               editor_delete_char(editor_move_cursor(CloseMenu(editor), "ARROW_RIGHT")))
    /\ UNCHANGED clipboard_content

KeyUndo ==
    /\ Running
    /\ Handled("undo", editor_undo(CloseMenu(editor)))
    /\ UNCHANGED clipboard_content

KeyRedo ==
    /\ Running
    /\ Handled("redo", editor_redo(CloseMenu(editor)))
    /\ UNCHANGED clipboard_content

menu_switch(E, direction) ==
    LET n == E.menu_open + direction
    IN [E EXCEPT !.menu_open = IF n < 0 THEN MENU_COUNT - 1
                               ELSE IF n >= MENU_COUNT THEN 0 ELSE n,
                 !.menu_selected_item = 0]

menu_move_selection(E, direction) ==
    LET item_count == MenuItemCount[E.menu_open + 1]
        separators == MenuSeparators[E.menu_open + 1]
        n1 == E.menu_selected_item + direction
        n2 == IF n1 \in separators THEN n1 + direction ELSE n1
    IN IF n2 >= 0 /\ n2 < item_count THEN [E EXCEPT !.menu_selected_item = n2] ELSE E

KeyArrow ==
    /\ Running
    /\ \E key \in ArrowKeys :
         IF editor.menu_open >= 0
         THEN Returned("menu_arrow",
                       CASE key = "ARROW_UP" -> menu_move_selection(editor, -1)
                         [] key = "ARROW_DOWN" -> menu_move_selection(editor, 1)
                         [] key = "ARROW_LEFT" -> menu_switch(editor, -1)
                         [] OTHER -> menu_switch(editor, 1))
         ELSE /\ Handled("arrow",
                   LET E1 == editor_move_cursor(selection_clear(editor), key)
                   IN IF Len(E1.cursors) > 0 THEN multicursor_move_all(E1, key) ELSE E1)
              /\ UNCHANGED clipboard_content

\* Smart Home: the first press goes to the first non-whitespace column, or
\* to column 0 when already there; a second press in a row toggles
KeyHome ==
    /\ Running
    /\ Handled("home",
          LET E0 == selection_clear(CloseMenu(editor))
              first_nonws == get_first_nonwhitespace_col(E0, E0.cursor_y)
              E1 == [E0 EXCEPT !.cursor_x =
                        IF E0.last_key_was_home
                        THEN IF @ = 0 THEN first_nonws ELSE 0
                        ELSE IF @ = first_nonws \/ first_nonws = 0 THEN 0
                             ELSE first_nonws]
          IN IF Len(E1.cursors) > 0
             THEN multicursor_apply_home_position(E1, E1.cursor_x # 0)
             ELSE E1)
    /\ UNCHANGED clipboard_content

KeyEnd ==
    /\ Running
    /\ Handled("end",
          LET E0 == selection_clear(CloseMenu(editor))
              E1 == IF E0.cursor_y < Len(E0.row)
                    THEN [E0 EXCEPT !.cursor_x = LineSize(E0, E0.cursor_y)]
                    ELSE E0
          IN IF Len(E1.cursors) > 0 THEN multicursor_apply_end_position(E1) ELSE E1)
    /\ UNCHANGED clipboard_content

ShiftKeys == {"ARROW_LEFT", "ARROW_RIGHT"}

KeyShiftArrow ==
    /\ Running
    /\ \E key \in ShiftKeys :
         Handled("shift_arrow",
                 LET E0 == CloseMenu(editor)
                     E1 == IF ~E0.selection.active THEN selection_start(E0) ELSE E0
                 IN selection_extend(editor_move_cursor(E1, key)))
    /\ UNCHANGED clipboard_content

KeySelectAll ==
    /\ Running
    /\ Handled("select_all", selection_select_all(CloseMenu(editor)))
    /\ UNCHANGED clipboard_content

editor_copy(E) ==
    IF ~E.selection.active THEN E
    ELSE IF SelTextOutOfBounds(E) THEN Crash(E)
    ELSE SetStatus(E, "Copied")

KeyCopy ==
    /\ Running
    /\ LET E0 == CloseMenu(editor) IN
       /\ Handled("copy", editor_copy(E0))
       /\ clipboard_content' = IF E0.selection.active /\ ~SelTextOutOfBounds(E0)
                               THEN selection_get_text(E0) ELSE clipboard_content

KeyPaste ==
    /\ Running
    /\ Handled("paste", editor_paste(CloseMenu(editor), clipboard_content))
    /\ UNCHANGED clipboard_content

KeyDuplicateLine ==
    /\ Running
    /\ \E stale \in BOOLEAN :
         Handled("duplicate_line", editor_duplicate_line(CloseMenu(editor), stale))
    /\ UNCHANGED clipboard_content

KeyDeleteLine ==
    /\ Running
    /\ Handled("delete_line", editor_delete_line(CloseMenu(editor)))
    /\ UNCHANGED clipboard_content

KeyAltUp ==
    /\ Running
    /\ Handled("alt_up", multicursor_add_above(CloseMenu(editor)))
    /\ UNCHANGED clipboard_content

KeyAltDown ==
    /\ Running
    /\ Handled("alt_down", multicursor_add_below(CloseMenu(editor)))
    /\ UNCHANGED clipboard_content

KeyAltC ==
    /\ Running
    /\ Handled("alt_c", multicursor_add_at_primary(CloseMenu(editor)))
    /\ UNCHANGED clipboard_content

KeyAltV ==
    /\ Running
    /\ Handled("alt_v", multicursor_add_at_primary_and_advance(CloseMenu(editor)))
    /\ UNCHANGED clipboard_content

\* case CHAR_ESCAPE, in the menu and in the main switch
EscapeKey ==
    IF editor.menu_open >= 0
    THEN ReturnedKey("menu_escape", CloseMenu(editor))
    ELSE /\ HandledKey("escape",
               selection_clear(IF Len(editor.cursors) > 0
                               THEN SetStatus(multicursor_clear(editor), "Cleared")
                               ELSE editor))
         /\ UNCHANGED clipboard_content

KeyEscape ==
    /\ Running
    /\ EscapeKey
    /\ UNCHANGED process

KeyF10 ==
    /\ Running
    /\ IF editor.menu_bar_visible
       THEN Returned("f10", IF editor.menu_open >= 0 THEN CloseMenu(editor)
                            ELSE [editor EXCEPT !.menu_open = 0,
                                                !.menu_selected_item = 0])
       ELSE \* default: editor_insert_char(key); F10_KEY is not a text character
            /\ Handled("f10", editor)
            /\ UNCHANGED clipboard_content

\* editor_save: the prompt for a name and the write succeed or fail
editor_save(E, ok) ==
    IF ok THEN SetStatus([E EXCEPT !.dirty = 0], "bytes written to disk")
    ELSE SetStatus(E, "not saved")

KeySave ==
    /\ Running
    /\ \E ok \in BOOLEAN : Handled("save", editor_save(CloseMenu(editor), ok))
    /\ UNCHANGED clipboard_content

\* the comment toggles with one cursor (the branch for secondary cursors is
\* left to the actions' guard)
editor_toggle_line_comment(E) ==
    LET comment == <<"/", "/">>
        row == RowAt(E, E.cursor_y)
        first_nonws == LeadingCount(row, 0, {" ", "\t", LF}, Len(row))
        RECURSIVE DeleteChars(_, _)
        DeleteChars(E1, n) ==
            IF n = 0 THEN E1
            ELSE DeleteChars(editor_row_delete_char(E1, E.cursor_y, first_nonws), n - 1)
        RECURSIVE InsertMarker(_, _)
        InsertMarker(E1, i) ==
            IF i < 0 THEN E1
            ELSE InsertMarker(editor_row_insert_char(E1, E.cursor_y, first_nonws,
                                                     comment[i + 1]), i - 1)
        Remove(remove_len) ==
            [DeleteChars(E, remove_len) EXCEPT
                !.cursor_x = IF @ > first_nonws
                             THEN (IF @ >= first_nonws + remove_len
                                   THEN @ - remove_len ELSE first_nonws)
                             ELSE @]
        Add ==
            [editor_row_insert_char(InsertMarker(E, Len(comment) - 1), E.cursor_y,
                                    first_nonws + Len(comment), " ")
                EXCEPT !.cursor_x = IF @ >= first_nonws THEN @ + Len(comment) + 1 ELSE @]
    IN IF E.cursor_y >= Len(E.row) \/ ~E.syntax THEN E
       ELSE MarkDirty(
                IF StartsAt(row, first_nonws, comment)
                THEN Remove(IF first_nonws + Len(comment) < Len(row)
                               /\ row[first_nonws + Len(comment) + 1] = " "
                            THEN Len(comment) + 1 ELSE Len(comment))
                ELSE Add)

RECURSIVE SkipSpaceEnd(_, _, _)
\* the loop that steps end_pos back over trailing white space
SkipSpaceEnd(chars, end_pos, end_len) ==
    IF end_pos > 0 /\ IsSpace(CharAt(chars, end_pos + end_len - 1))
    THEN SkipSpaceEnd(chars, end_pos - 1, end_len) ELSE end_pos

editor_toggle_block_comment(E) ==
    LET start == <<"/", "*">>
        end == <<"*", "/">>
        y == E.cursor_y
        row == RowAt(E, y)
        first_nonws == LeadingCount(row, 0, {" ", "\t", LF}, Len(row))
        has_start == StartsAt(row, first_nonws, start)
        end_pos == SkipSpaceEnd(row, Len(row) - Len(end), Len(end))
        has_end == end_pos >= first_nonws + Len(start) /\ StartsAt(row, end_pos, end)
        RECURSIVE DeleteChars(_, _, _)
        DeleteChars(E1, at, n) ==
            IF n = 0 THEN E1
            ELSE DeleteChars(editor_row_delete_char(E1, y, at), at, n - 1)
        RECURSIVE InsertBack(_, _)
        InsertBack(E1, i) ==
            IF i < 0 THEN E1
            ELSE InsertBack(editor_row_insert_char(E1, y, first_nonws, start[i + 1]), i - 1)
        RECURSIVE InsertEnd(_, _, _)
        InsertEnd(E1, content_end, i) ==
            IF i >= Len(end) THEN E1
            ELSE InsertEnd(editor_row_insert_char(E1, y, content_end + 1 + i, end[i + 1]),
                           content_end, i + 1)
        RECURSIVE ContentEnd(_, _)
        ContentEnd(chars, content_end) ==
            IF content_end > first_nonws + Len(start) + 1
               /\ IsSpace(CharAt(chars, content_end - 1))
            THEN ContentEnd(chars, content_end - 1) ELSE content_end
        \* remove the start marker and the space after it
        RemoveStart(E2) ==
            DeleteChars(E2, first_nonws,
                        IF first_nonws + Len(start) < LineSize(E2, y)
                           /\ CharAt(RowAt(E2, y), first_nonws + Len(start)) = " "
                        THEN Len(start) + 1 ELSE Len(start))
        \* remove the space before the end marker
        RemoveSpace(E1) ==
            RemoveStart(IF end_pos > 0 /\ CharAt(RowAt(E1, y), end_pos - 1) = " "
                        THEN editor_row_delete_char(E1, y, end_pos - 1) ELSE E1)
        AddEnd(E2, content_end) ==
            InsertEnd(editor_row_insert_char(E2, y, content_end, " "), content_end, 0)
        AddStart(E1) == AddEnd(E1, ContentEnd(RowAt(E1, y), LineSize(E1, y)))
    IN IF E.cursor_y >= Len(E.row) \/ ~E.syntax THEN E
       ELSE MarkDirty(
                IF has_start /\ has_end
                THEN RemoveSpace(DeleteChars(E, end_pos, Len(end)))
                ELSE AddStart(editor_row_insert_char(InsertBack(E, Len(start) - 1), y,
                                                     first_nonws + Len(start), " ")))

KeyToggleLineComment ==
    /\ Running
    /\ Len(editor.cursors) = 0
    /\ Handled("toggle_line", editor_toggle_line_comment(CloseMenu(editor)))
    /\ UNCHANGED clipboard_content

KeyToggleBlockComment ==
    /\ Running
    /\ Len(editor.cursors) = 0
    /\ Handled("toggle_block", editor_toggle_block_comment(CloseMenu(editor)))
    /\ UNCHANGED clipboard_content

character_is_whitespace(c) == c \in {" ", "\t", LF, "\r"}

\* the paragraph around cursor_line; bad: a row outside the buffer was read
detect_paragraph(E, cursor_line) ==
    LET RECURSIVE Up(_, _)
        Up(line, start_line) ==
            IF line <= 0 THEN start_line
            ELSE IF LineSize(E, line) = 0 THEN line + 1
            ELSE Up(line - 1, line)
        RECURSIVE Down(_, _)
        Down(line, end_line) ==
            IF line >= Len(E.row) THEN end_line
            ELSE IF LineSize(E, line) = 0 THEN line - 1
            ELSE Down(line + 1, line)
    IN [start_line |-> Up(cursor_line, cursor_line),
        end_line |-> Down(cursor_line, cursor_line),
        bad |-> cursor_line > 0 /\ cursor_line >= Len(E.row)]

\* length of the prefix of a row: indentation and a comment marker
detect_line_prefix(chars) ==
    LET i == LeadingCount(chars, 0, {" ", "\t"}, Len(chars))
        Space(j) == IF j < Len(chars) /\ chars[j + 1] = " " THEN j + 1 ELSE j
    IN IF i < Len(chars) - 1 /\ chars[i + 1] = "/" /\ chars[i + 2] = "/" THEN Space(i + 2)
       ELSE IF i < Len(chars) /\ chars[i + 1] = "*" THEN Space(i + 1)
       ELSE i

editor_reflow_paragraph(E) ==
    LET para == detect_paragraph(E, E.cursor_y)
        first == RowAt(E, para.start_line)
        prefix_length == detect_line_prefix(first)
        wrap_width == DEFAULT_WRAP_COLUMN - prefix_length
        \* the rows of the paragraph without their prefixes, a space between them
        RECURSIVE Joined(_, _)
        Joined(i, joined) ==
            IF i > para.end_line THEN joined
            ELSE LET row == RowAt(E, i)
                     start == detect_line_prefix(row)
                 IN Joined(i + 1,
                           IF Len(row) - start > 0
                           THEN (IF Len(joined) > 0
                                    /\ ~character_is_whitespace(joined[Len(joined)])
                                 THEN Append(joined, " ") ELSE joined)
                                \o Slice(row, start, Len(row))
                           ELSE joined)
        RECURSIVE SkipSpace(_, _)
        SkipSpace(joined, text_pos) ==
            IF text_pos < Len(joined) /\ character_is_whitespace(joined[text_pos + 1])
            THEN SkipSpace(joined, text_pos + 1) ELSE text_pos
        RECURSIVE WrapAt(_, _, _, _)
        WrapAt(joined, text_pos, line_len, i) ==
            IF i > 0 /\ i > line_len - WORD_BREAK_SEARCH_WINDOW
            THEN IF character_is_whitespace(CharAt(joined, text_pos + i)) THEN i
                 ELSE WrapAt(joined, text_pos, line_len, i - 1)
            ELSE line_len
        RECURSIVE Wrap(_, _, _, _)
        Wrap(E1, joined, current_line, text_pos0) ==
            LET text_pos == SkipSpace(joined, text_pos0)
                remaining == Len(joined) - text_pos
                fit == IF remaining < wrap_width THEN remaining ELSE wrap_width
                line_len == IF fit < remaining THEN WrapAt(joined, text_pos, fit, fit)
                            ELSE fit
            IN IF text_pos >= Len(joined) THEN E1
               ELSE Wrap(editor_insert_row(E1, current_line,
                             SubSeq(first, 1, prefix_length)
                             \o Slice(joined, text_pos, text_pos + line_len)),
                         joined, current_line + 1, text_pos + line_len)
        Rewrap(joined) ==
            SetStatus(MarkDirty(Wrap(DeleteRowsDown(E, para.end_line, para.start_line - 1),
                                     joined, para.start_line, 0)),
                      "Reflowed paragraph")
    IN IF para.bad \/ ~InRows(E, para.start_line) \/ wrap_width <= 0 THEN Crash(E)
       ELSE IF para.start_line = para.end_line
               /\ LineSize(E, para.start_line) <= wrap_width
       THEN SetStatus(E, "Line already fits within wrap column")
       ELSE Rewrap(Joined(para.start_line, <<>>))

editor_join_paragraph(E) ==
    LET para == detect_paragraph(E, E.cursor_y)
        first == RowAt(E, para.start_line)
        prefix_length == detect_line_prefix(first)
        RECURSIVE Joined(_, _)
        Joined(i, joined) ==
            IF i > para.end_line THEN joined
            ELSE LET row == RowAt(E, i)
                     line_pre == detect_line_prefix(row)
                     start == LeadingCount(row, line_pre, {" ", "\t", LF, "\r"}, Len(row))
                 IN Joined(i + 1,
                           IF Len(row) - line_pre > 0 /\ Len(row) - start > 0
                           THEN (IF Len(joined) > 0
                                    /\ ~character_is_whitespace(joined[Len(joined)])
                                 THEN Append(joined, " ") ELSE joined)
                                \o Slice(row, start, Len(row))
                           ELSE joined)
        Insert(joined) ==
            SetStatus(MarkDirty(editor_insert_row(
                                    DeleteRowsDown(E, para.end_line, para.start_line - 1),
                                    para.start_line,
                                    SubSeq(first, 1, prefix_length) \o joined)),
                      "Joined lines into 1")
    IN IF para.bad \/ ~InRows(E, para.start_line) THEN Crash(E)
       ELSE IF para.start_line = para.end_line THEN SetStatus(E, "Already a single line")
       ELSE Insert(Joined(para.start_line, <<>>))

KeyReflow ==
    /\ Running
    /\ Handled("reflow", editor_reflow_paragraph(CloseMenu(editor)))
    /\ UNCHANGED clipboard_content

KeyJoin ==
    /\ Running
    /\ Handled("join", editor_join_paragraph(CloseMenu(editor)))
    /\ UNCHANGED clipboard_content

get_matching_bracket(c) ==
    CASE c = "(" -> ")" [] c = ")" -> "("
      [] c = "[" -> "]" [] c = "]" -> "["
      [] c = "{" -> "}" [] c = "}" -> "{"
      [] OTHER -> NUL

\* the number of backslashes that end at column col - 1 of the row
Backslashes(chars, col) ==
    LET RECURSIVE Count(_)
        Count(k) == IF k >= 0 /\ chars[k + 1] = "\\" THEN 1 + Count(k - 1) ELSE 0
    IN Count(col - 1)

\* the multi-line comment markers of the syntax in use (none without one)
MlStart(E) == IF E.syntax THEN <<"/", "*">> ELSE <<>>
MlEnd(E) == IF E.syntax THEN <<"*", "/">> ELSE <<>>

\* first occurrence of the needle from (start_row, start_col) on, <<row, col>>
\* or <<>> when there is none
editor_search_comment_forward(rows, needle, start_row, start_col) ==
    LET RECURSIVE Search(_, _)
        Search(r, c) ==
            IF r >= Len(rows) THEN <<>>
            ELSE IF c + Len(needle) > Len(rows[r + 1]) THEN Search(r + 1, 0)
            ELSE IF StartsAt(rows[r + 1], c, needle) THEN <<r, c>>
            ELSE Search(r, c + 1)
    IN IF Len(needle) <= 0 THEN <<>> ELSE Search(start_row, start_col)

\* last occurrence of the needle that ends at or before (start_row, start_col)
editor_search_comment_backward(rows, needle, start_row, start_col) ==
    LET RECURSIVE Search(_, _)
        Search(r, c) ==
            IF r < 0 THEN <<>>
            ELSE IF c - Len(needle) + 1 < 0
                 THEN IF r - 1 >= 0 THEN Search(r - 1, Len(rows[r]) - 1) ELSE <<>>
            ELSE IF StartsAt(rows[r + 1], c - Len(needle) + 1, needle)
                 THEN <<r, c - Len(needle) + 1>>
            ELSE Search(r, c - 1)
    IN IF Len(needle) <= 0 THEN <<>> ELSE Search(start_row, start_col)

\* the bracket-match state editor_match_from leaves: NoBracket when it
\* returns 0
editor_match_from(E, start_row, start_col) ==
    LET rows == E.row
        ml_start == MlStart(E)
        ml_end == MlEnd(E)
        Markers == Len(ml_start) > 0 /\ Len(ml_end) > 0
        Pair(open_row, open_col, open_len, close_row, close_col, close_len, forward) ==
            [match_row |-> IF forward THEN close_row ELSE open_row,
             match_col |-> IF forward THEN close_col ELSE open_col,
             open_row |-> open_row, open_col |-> open_col, open_len |-> open_len,
             close_row |-> close_row, close_col |-> close_col, close_len |-> close_len]
        Brackets(current, match) ==
            LET RECURSIVE Forward(_, _, _, _, _)
                Forward(search_row, search_col, in_string, in_multiline_comment, depth) ==
                    IF search_row >= Len(rows) THEN NoBracket
                    ELSE IF search_col >= Len(rows[search_row + 1])
                         THEN Forward(search_row + 1, 0, in_string, in_multiline_comment, depth)
                    ELSE LET r == rows[search_row + 1]
                             c == r[search_col + 1]
                         IN IF ~in_multiline_comment /\ in_string # ""
                            THEN Forward(search_row, search_col + 1,
                                         IF c = in_string /\ Backslashes(r, search_col) % 2 = 0
                                         THEN "" ELSE in_string,
                                         in_multiline_comment, depth)
                            ELSE IF ~in_multiline_comment /\ c \in {"\"", "'"}
                            THEN Forward(search_row, search_col + 1, c, in_multiline_comment, depth)
                            ELSE IF Markers /\ ~in_multiline_comment /\ StartsAt(r, search_col, ml_start)
                            THEN Forward(search_row, search_col + Len(ml_start), in_string, TRUE, depth)
                            ELSE IF Markers /\ in_multiline_comment /\ StartsAt(r, search_col, ml_end)
                            THEN Forward(search_row, search_col + Len(ml_end), in_string, FALSE, depth)
                            ELSE IF Markers /\ in_multiline_comment
                            THEN Forward(search_row, search_col + 1, in_string, in_multiline_comment, depth)
                            ELSE IF c = current
                            THEN Forward(search_row, search_col + 1, in_string, in_multiline_comment, depth + 1)
                            ELSE IF c = match
                            THEN IF depth - 1 = 0
                                 THEN Pair(start_row, start_col, 1, search_row, search_col, 1, TRUE)
                                 ELSE Forward(search_row, search_col + 1, in_string,
                                              in_multiline_comment, depth - 1)
                            ELSE Forward(search_row, search_col + 1, in_string, in_multiline_comment, depth)
                RECURSIVE Backward(_, _, _, _, _)
                RECURSIVE BackwardRow(_, _, _, _, _)
                Backward(search_row, search_col, in_string, in_multiline_comment, depth) ==
                    IF search_row < 0 THEN NoBracket
                    ELSE BackwardRow(search_row,
                                     IF search_col < 0 THEN Len(rows[search_row + 1]) - 1
                                     ELSE search_col,
                                     in_string, in_multiline_comment, depth)
                BackwardRow(search_row, search_col, in_string, in_multiline_comment, depth) ==
                    IF search_col < 0
                    THEN IF search_row - 1 >= 0
                         THEN Backward(search_row - 1, Len(rows[search_row]) - 1,
                                       in_string, in_multiline_comment, depth)
                         ELSE NoBracket
                    ELSE LET r == rows[search_row + 1]
                             c == r[search_col + 1]
                         IN IF ~in_multiline_comment /\ in_string # ""
                            THEN BackwardRow(search_row, search_col - 1,
                                         IF c = in_string /\ Backslashes(r, search_col) % 2 = 0
                                         THEN "" ELSE in_string,
                                         in_multiline_comment, depth)
                            ELSE IF ~in_multiline_comment /\ c \in {"\"", "'"}
                            THEN BackwardRow(search_row, search_col - 1, c, in_multiline_comment, depth)
                            ELSE IF Markers /\ ~in_multiline_comment
                                    /\ search_col - Len(ml_end) + 1 >= 0
                                    /\ StartsAt(r, search_col - Len(ml_end) + 1, ml_end)
                            THEN BackwardRow(search_row, search_col - Len(ml_end), in_string, TRUE, depth)
                            ELSE IF Markers /\ in_multiline_comment
                                    /\ search_col - Len(ml_start) + 1 >= 0
                                    /\ StartsAt(r, search_col - Len(ml_start) + 1, ml_start)
                            THEN BackwardRow(search_row, search_col - Len(ml_start), in_string, FALSE, depth)
                            ELSE IF Markers /\ in_multiline_comment
                            THEN BackwardRow(search_row, search_col - 1, in_string,
                                             in_multiline_comment, depth)
                            ELSE IF c = current
                            THEN BackwardRow(search_row, search_col - 1, in_string,
                                             in_multiline_comment, depth + 1)
                            ELSE IF c = match
                            THEN IF depth - 1 = 0
                                 THEN Pair(search_row, search_col, 1, start_row, start_col, 1, FALSE)
                                 ELSE BackwardRow(search_row, search_col - 1, in_string,
                                                  in_multiline_comment, depth - 1)
                            ELSE BackwardRow(search_row, search_col - 1, in_string,
                                             in_multiline_comment, depth)
            IN IF match = NUL THEN NoBracket
               ELSE IF current \in {"(", "[", "{"}
                    THEN Forward(start_row, start_col + 1, "", FALSE, 1)
                    ELSE Backward(start_row, start_col - 1, "", FALSE, 1)
        CommentStart(found) ==
            IF found = <<>> THEN NoBracket
            ELSE Pair(start_row, start_col, Len(ml_start), found[1], found[2], Len(ml_end), TRUE)
        CommentEnd(found) ==
            IF found = <<>> THEN NoBracket
            ELSE Pair(found[1], found[2], Len(ml_start), start_row, start_col, Len(ml_end), FALSE)
    IN IF start_row < 0 \/ start_row >= Len(rows) THEN NoBracket
       ELSE IF start_col < 0 \/ start_col >= Len(rows[start_row + 1]) THEN NoBracket
       ELSE IF Markers /\ StartsAt(rows[start_row + 1], start_col, ml_start)
            THEN CommentStart(editor_search_comment_forward(rows, ml_end, start_row,
                                                            start_col + Len(ml_start)))
       ELSE IF Markers /\ StartsAt(rows[start_row + 1], start_col, ml_end)
            THEN CommentEnd(editor_search_comment_backward(rows, ml_start, start_row,
                                                           start_col - 1))
       ELSE Brackets(rows[start_row + 1][start_col + 1],
                     get_matching_bracket(rows[start_row + 1][start_col + 1]))

\* <<row, col>> of the start marker of the comment the forward scan from the
\* start of the file finds open at the cursor, <<>> when it finds none
editor_cursor_in_multiline_comment(E) ==
    LET rows == E.row
        ml_start == MlStart(E)
        ml_end == MlEnd(E)
        RECURSIVE Scan(_, _, _, _, _)
        Scan(r, c, in_comment, comment_start, in_string) ==
            IF ~(r <= E.cursor_y /\ r < Len(rows))
            THEN IF in_comment /\ comment_start # <<>> THEN comment_start ELSE <<>>
            ELSE IF ~(c < (IF r = E.cursor_y THEN E.cursor_x ELSE Len(rows[r + 1]))
                      /\ c < Len(rows[r + 1]))
                 THEN Scan(r + 1, 0, in_comment, comment_start, in_string)
            ELSE LET chars == rows[r + 1]
                     ch == chars[c + 1]
                 IN IF ~in_comment /\ in_string # ""
                    THEN Scan(r, c + 1, in_comment, comment_start,
                              IF ch = in_string /\ Backslashes(chars, c) % 2 = 0
                              THEN "" ELSE in_string)
                    ELSE IF ~in_comment /\ ch \in {"\"", "'"}
                    THEN Scan(r, c + 1, in_comment, comment_start, ch)
                    ELSE IF ~in_comment /\ StartsAt(chars, c, ml_start)
                    THEN Scan(r, c + Len(ml_start), TRUE, <<r, c>>, in_string)
                    ELSE IF in_comment /\ StartsAt(chars, c, ml_end)
                    THEN Scan(r, c + Len(ml_end), FALSE, <<>>, in_string)
                    ELSE Scan(r, c + 1, in_comment, comment_start, in_string)
    IN IF Len(ml_start) = 0 \/ Len(ml_end) = 0 THEN <<>>
       ELSE Scan(0, 0, FALSE, <<>>, "")

\* the editor with the bracket-match state editor_find_matching_bracket
\* leaves; g_bracket keeps the rows and the cursor it ran on
editor_find_matching_bracket(E) ==
    LET rows == E.row
        ml_start == MlStart(E)
        ml_end == MlEnd(E)
        Markers == Len(ml_start) > 0 /\ Len(ml_end) > 0
        Closing == [c \in {")", "]", "}"} |-> get_matching_bracket(c)]
        RECURSIVE Enclosing(_, _, _, _, _)
        \* depth[b]: paren_depth, bracket_depth, brace_depth by opening bracket
        Enclosing(sr, sc, in_string, in_multiline_comment, depth) ==
            IF sr < 0 THEN NoBracket
            ELSE IF sc < 0
                 THEN IF sr - 1 >= 0
                      THEN Enclosing(sr - 1, Len(rows[sr]) - 1, in_string,
                                     in_multiline_comment, depth)
                      ELSE NoBracket
            ELSE LET r == rows[sr + 1]
                     c == r[sc + 1]
                     Found(match) ==
                         IF match # NoBracket THEN match
                         ELSE Enclosing(sr, sc - 1, in_string, in_multiline_comment, depth)
                 IN IF Markers /\ in_string = "" /\ ~in_multiline_comment
                       /\ sc - Len(ml_end) + 1 >= 0
                       /\ StartsAt(r, sc - Len(ml_end) + 1, ml_end)
                    THEN Enclosing(sr, sc - Len(ml_end), in_string, TRUE, depth)
                    ELSE IF Markers /\ in_string = "" /\ in_multiline_comment
                            /\ sc - Len(ml_start) + 1 >= 0
                            /\ StartsAt(r, sc - Len(ml_start) + 1, ml_start)
                    THEN Enclosing(sr, sc - Len(ml_start), in_string, FALSE, depth)
                    ELSE IF in_multiline_comment
                    THEN Enclosing(sr, sc - 1, in_string, in_multiline_comment, depth)
                    ELSE IF in_string # ""
                    THEN Enclosing(sr, sc - 1,
                                   IF c = in_string /\ Backslashes(r, sc) % 2 = 0
                                   THEN "" ELSE in_string,
                                   in_multiline_comment, depth)
                    ELSE IF c \in {"\"", "'"}
                    THEN Enclosing(sr, sc - 1, c, in_multiline_comment, depth)
                    ELSE IF c \in {")", "]", "}"}
                    THEN Enclosing(sr, sc - 1, in_string, in_multiline_comment,
                                   [depth EXCEPT ![Closing[c]] = @ + 1])
                    ELSE IF c \in {"(", "[", "{"}
                    THEN IF depth[c] > 0
                         THEN Enclosing(sr, sc - 1, in_string, in_multiline_comment,
                                        [depth EXCEPT ![c] = @ - 1])
                         ELSE Found(editor_match_from(E, sr, sc))
                    ELSE Enclosing(sr, sc - 1, in_string, in_multiline_comment, depth)
        AtCursor(match) ==
            IF match # NoBracket THEN match
            ELSE Enclosing(E.cursor_y, E.cursor_x - 1, "", FALSE,
                           [b \in {"(", "[", "{"} |-> 0])
        InComment(comment_start) ==
            IF comment_start # <<>>
            THEN editor_match_from(E, comment_start[1], comment_start[2])
            ELSE IF E.cursor_x >= Len(rows[E.cursor_y + 1]) THEN NoBracket
            ELSE AtCursor(editor_match_from(E, E.cursor_y, E.cursor_x))
        Ran == [ran |-> TRUE, rows |-> rows, cursor_y |-> E.cursor_y, cursor_x |-> E.cursor_x]
    IN IF E.cursor_y >= Len(rows) THEN [E EXCEPT !.bracket = NoBracket, !.g_bracket = Ran]
       ELSE [E EXCEPT !.bracket = InComment(editor_cursor_in_multiline_comment(E)),
                      !.g_bracket = Ran]

editor_jump_to_matching_bracket(E) ==
    LET Jump(E1) == IF E1.bracket.match_row # -1
                    THEN [E1 EXCEPT !.cursor_y = E1.bracket.match_row,
                                    !.cursor_x = E1.bracket.match_col]
                    ELSE E1
    IN Jump(editor_find_matching_bracket(E))

\* editor_refresh_screen updates the bracket-match state before it draws
FindMatchingBracket ==
    /\ ~exited /\ ~editor.crashed
    /\ editor' = editor_find_matching_bracket(editor)
    /\ UNCHANGED <<clock, clipboard_content, quit_times, exited, last_key, steps, hist, process>>

KeyJumpBracket ==
    /\ Running
    /\ Handled("jump_bracket", editor_jump_to_matching_bracket(CloseMenu(editor)))
    /\ UNCHANGED clipboard_content

\* Shift+click in the text area with no menu open, no soft wrap and no
\* horizontal scroll: the click lands on file_row (a click below the last row
\* is taken to the last row) at render column render_x; g_click_x keeps
\* render_x for the properties
editor_handle_mouse_event(E, file_row, render_x) ==
    LET cursor_x == IF file_row < Len(E.row)
                    THEN editor_row_render_to_cursor(E.row[file_row + 1], render_x)
                    ELSE 0
        Clicked(E1) == selection_extend([E1 EXCEPT !.cursor_x = cursor_x,
                                                   !.cursor_y = file_row,
                                                   !.g_click_x = render_x])
    IN Clicked(IF ~E.selection.active THEN selection_start(E) ELSE E)

MouseShiftClick ==
    /\ Running
    /\ editor.menu_open = -1
    /\ \E file_row \in 0..(IF Len(editor.row) > 0 THEN Len(editor.row) - 1 ELSE 0),
          render_x \in 0..MaxClickX :
         Handled("shift_click", editor_handle_mouse_event(editor, file_row, render_x))
    /\ UNCHANGED clipboard_content

\* soft wrap: the screen code recalculates the breaks of a row for the
\* width left of the gutter (editor_row_visual_rows, editor_draw_rows,
\* editor_scroll); the width depends on the terminal and is an input
WrapWidths == 0..MaxWrapWidth

CalculateWrapBreaks ==
    /\ ~exited /\ ~editor.crashed
    /\ \E y \in 0..(Len(editor.row) - 1), available_width \in WrapWidths :
         LET Outcomes(res) ==
                 IF Len(res.breaks) > res.allocated /\ res.allocated > 0
                 THEN {<<"kept", 0>>, <<"abort", 0>>, <<"garbage", 0>>, <<"garbage", -1>>}
                 ELSE {<<"kept", 0>>}
         IN \E o \in Outcomes(editor_calculate_wrap_breaks(render(editor.row[y + 1]),
                                                            available_width)) :
                editor' = StoreWrapBreaks(editor, y, available_width, o[1], o[2])
    /\ UNCHANGED <<clock, clipboard_content, quit_times, exited, last_key, steps, hist, process>>

editor_clear_buffer(E) ==
    selection_clear([E EXCEPT !.row = <<>>, !.open_comment = <<>>, !.wrap = <<>>,
                              !.cursor_x = 0, !.cursor_y = 0,
                              !.undo_group_id = 0, !.undo_position = 0,
                              !.dirty = 0])

RECURSIVE editor_open_lines(_, _, _)
\* one editor_insert_row at the end of the buffer for each line of the file
editor_open_lines(E, lines, i) ==
    IF i > Len(lines) THEN E
    ELSE editor_open_lines(editor_insert_row(E, Len(E.row), lines[i]), lines, i + 1)

editor_open(E, lines) == [editor_open_lines(E, lines, 1) EXCEPT !.dirty = 0]

\* response: the answer to "Save changes?" (NULLSTR: Escape); chosen: the
\* browser returned a file, and lines is what editor_open reads from it
editor_open_file_browser(E, response, ok, chosen, lines) ==
    LET Browse(E1) ==
            IF chosen THEN editor_open(editor_clear_buffer(E1), lines)
            ELSE SetStatus(E1, "Open cancelled")
    IN IF E.dirty # 0 /\ response = NULLSTR THEN SetStatus(E, "Open cancelled")
       ELSE Browse(IF E.dirty # 0 /\ response = <<"y">> THEN editor_save(E, ok) ELSE E)

\* the files on disk the browser can return
Files == { << <<"c">> >> }

KeyOpen ==
    /\ Running
    /\ \E response \in {NULLSTR, <<"y">>, <<"n">>}, ok \in BOOLEAN,
          chosen \in BOOLEAN, lines \in Files :
            Handled("open", editor_open_file_browser(CloseMenu(editor), response, ok,
                                                     chosen, lines))
    /\ UNCHANGED clipboard_content

KeyCtrlQ ==
    /\ Running
    /\ LET E0 == [CloseMenu(editor) EXCEPT !.last_key_was_home = FALSE] IN
       IF E0.dirty # 0 /\ quit_times > 0
       THEN /\ editor' = SetStatus(E0, "You have unsaved changes")
            /\ quit_times' = quit_times - 1
            /\ UNCHANGED exited
       ELSE /\ editor' = E0
            /\ exited' = TRUE
            /\ UNCHANGED quit_times
    /\ last_key' = "quit"
    /\ steps' = steps + 1
    /\ hist' = NextHist("quit", editor)
    /\ UNCHANGED <<clock, clipboard_content, process>>

\* time passes between two key events (editor_read_key timing out returns -1
\* and editor_process_keypress returns at once)
Tick ==
    /\ Running
    /\ clock < MaxTicks * TickMs
    /\ clock' = clock + TickMs
    /\ UNCHANGED <<editor, clipboard_content, quit_times, exited, last_key, steps, hist, process>>

\* one call of editor_read_key on the bytes that are waiting
ReadKey ==
    /\ ~exited
    /\ steps < hist.budget
    /\ keycode' = editor_read_key(stdin).key
    /\ stdin' = editor_read_key(stdin).rest
    /\ steps' = steps + 1
    /\ hist' = [hist EXCEPT !.read = SubSeq(stdin, 1, Len(stdin)
                                                      - Len(editor_read_key(stdin).rest))]
    /\ UNCHANGED <<editor, clock, clipboard_content, quit_times, exited, last_key,
                   window_resize_pending, pc>>

\* bytes that no case of the switch of editor_process_keypress matches
TextBytes == {"a", "~", ";", "5", "A", "P"}

\* editor_process_keypress with its call of editor_read_key, for the keys
\* that are a timeout, ESC or a text byte
ReadKeypress ==
    /\ Running
    /\ LET Dispatch(r) ==
               /\ r.key \in {"-1", CHAR_ESCAPE} \cup TextBytes
               /\ stdin' = r.rest
               /\ keycode' = r.key
               /\ UNCHANGED <<window_resize_pending, pc>>
               /\ CASE r.key = "-1" ->
                         UNCHANGED <<editor, clock, clipboard_content, quit_times, exited,
                                     last_key, steps, hist>>
                    [] r.key = CHAR_ESCAPE -> EscapeKey
                    [] OTHER -> InsertKey(r.key)
       IN Dispatch(editor_read_key(stdin))

\* case CTRL_KEY('f') up to the first read of the prompt of editor_find
FindKey ==
    /\ editor' = editor_find_begin([CloseMenu(editor) EXCEPT !.last_key_was_home = FALSE])
    /\ last_key' = "find"
    /\ steps' = steps + 1
    /\ hist' = NextHist("find", editor)
    /\ UNCHANGED <<clock, exited, quit_times, clipboard_content>>

\* one turn of the prompt of editor_find; the key that ends the prompt also
\* ends editor_find and editor_process_keypress
PromptKey(key) ==
    /\ \E E \in {editor_prompt(editor, key)} :
           IF E.prompt.result = <<"reading">>
           THEN /\ editor' = E
                /\ pc' = "prompt"
                /\ UNCHANGED quit_times
           ELSE /\ editor' = editor_find_end(E)
                /\ pc' = "loop"
                /\ quit_times' = MITER_QUIT_TIMES
    /\ keycode' = key
    /\ steps' = IF key = "-1" THEN steps ELSE steps + 1
    /\ hist' = IF hist.track /\ key # "-1" THEN [hist EXCEPT !.pre = editor] ELSE hist
    /\ UNCHANGED <<clock, exited, clipboard_content, last_key, window_resize_pending>>

KeyFind ==
    /\ Running
    /\ pc = "loop"
    /\ FindKey
    /\ pc' = "prompt"
    /\ keycode' = CTRL_F
    /\ UNCHANGED <<stdin, window_resize_pending>>

\* the keys pressed while the prompt is open, "-1" the read that timed out
PromptKeys == {"a", "b", " ", BACKSPACE, CR, CHAR_ESCAPE, "HOME_KEY", "-1"} \cup ArrowKeys

KeyPrompt ==
    /\ Running
    /\ pc = "prompt"
    /\ \E key \in PromptKeys : PromptKey(key)
    /\ UNCHANGED stdin

\* window_get_size succeeded or failed; the screen size itself is not part
\* of the state kept here
editor_handle_resize(E, ok) ==
    LET ClampX(E1) ==
            IF E1.cursor_y < Len(E1.row) /\ Len(E1.row) > 0
               /\ E1.cursor_x > LineSize(E1, E1.cursor_y)
            THEN [E1 EXCEPT !.cursor_x = LineSize(E1, E1.cursor_y)]
            ELSE E1
    IN IF ~ok THEN E
       ELSE ClampX(IF E.cursor_y >= Len(E.row)
                   THEN [E EXCEPT !.cursor_y = IF Len(E.row) > 0 THEN Len(E.row) - 1 ELSE 0]
                   ELSE E)

\* SIGWINCH is delivered: the handler runs between any two steps of the
\* program
handle_sigwinch ==
    /\ ~exited
    /\ hist.signals < MaxSignals
    /\ window_resize_pending' = 1
    /\ hist' = [hist EXCEPT !.signals = @ + 1, !.unhandled = TRUE]
    /\ UNCHANGED <<editor, clock, clipboard_content, quit_times, exited, last_key, steps,
                   stdin, pc, keycode>>

\* the user presses the next key: its byte arrives when the bytes before
\* it were read (a lone ESC is followed by a read that times out)
UserTypes ==
    /\ ~exited
    /\ stdin = <<>>
    /\ hist.keys # <<>>
    /\ stdin' = <<Head(hist.keys)>>
    /\ hist' = [hist EXCEPT !.keys = Tail(@)]
    /\ UNCHANGED <<editor, clock, clipboard_content, quit_times, exited, last_key, steps,
                   window_resize_pending, pc, keycode>>

\* the loop of main: if (window_resize_pending)
LoopTest ==
    /\ ~exited /\ ~editor.crashed
    /\ pc = "loop"
    /\ pc' = IF window_resize_pending # 0 THEN "clear" ELSE "refresh"
    /\ UNCHANGED <<editor, clock, clipboard_content, quit_times, exited, last_key, steps,
                   hist, stdin, window_resize_pending, keycode>>

\* window_resize_pending = 0
LoopClear ==
    /\ pc = "clear"
    /\ window_resize_pending' = 0
    /\ pc' = "resize"
    /\ UNCHANGED <<editor, clock, clipboard_content, quit_times, exited, last_key, steps,
                   hist, stdin, keycode>>

\* editor_handle_resize is entered: every signal delivered so far is followed
\* by this run
HandleResizeBegin ==
    /\ pc = "resize"
    /\ pc' = "resizing"
    /\ hist' = [hist EXCEPT !.unhandled = FALSE]
    /\ UNCHANGED <<editor, clock, clipboard_content, quit_times, exited, last_key, steps,
                   stdin, window_resize_pending, keycode>>

HandleResizeEnd ==
    /\ pc = "resizing"
    /\ \E ok \in BOOLEAN : editor' = editor_handle_resize(editor, ok)
    /\ pc' = "refresh"
    /\ UNCHANGED <<clock, clipboard_content, quit_times, exited, last_key, steps, hist,
                   stdin, window_resize_pending, keycode>>

\* editor_refresh_screen of the loop of main
RefreshScreen ==
    /\ pc = "refresh"
    /\ pc' = "keypress"
    /\ UNCHANGED <<editor, clock, clipboard_content, quit_times, exited, last_key, steps,
                   hist, stdin, window_resize_pending, keycode>>

\* editor_process_keypress of the loop of main, for the keys that are a
\* timeout, Ctrl-F or ESC
ProcessKeypress ==
    /\ Running
    /\ pc = "keypress"
    /\ LET Dispatch(r) ==
               /\ r.key \in {"-1", CTRL_F, CHAR_ESCAPE}
               /\ stdin' = r.rest
               /\ keycode' = r.key
               /\ pc' = IF r.key = CTRL_F THEN "prompt" ELSE "loop"
               /\ UNCHANGED window_resize_pending
               /\ CASE r.key = "-1" ->
                         UNCHANGED <<editor, clock, clipboard_content, quit_times, exited,
                                     last_key, steps, hist>>
                    [] r.key = CTRL_F -> FindKey
                    [] OTHER -> EscapeKey
       IN Dispatch(editor_read_key(stdin))

\* the prompt of editor_find reads its next key
PromptRead ==
    /\ Running
    /\ pc = "prompt"
    /\ PromptKey(editor_read_key(stdin).key)
    /\ stdin' = editor_read_key(stdin).rest

---------------------------------------------------------------------------
(* Specifications *)

InitWith(E, budget) ==
    /\ editor = E
    /\ clock = 0
    /\ clipboard_content = NULLSTR
    /\ quit_times = MITER_QUIT_TIMES
    /\ exited = FALSE
    /\ last_key = "none"
    /\ steps = 0
    /\ hist = HistInit(E, budget)
    /\ stdin = <<>>
    /\ window_resize_pending = 0
    /\ pc = "loop"
    /\ keycode = "-1"

\* the same with the editor before the last key kept in hist.pre
InitTracked(E, budget) ==
    /\ editor = E
    /\ clock = 0
    /\ clipboard_content = NULLSTR
    /\ quit_times = MITER_QUIT_TIMES
    /\ exited = FALSE
    /\ last_key = "none"
    /\ steps = 0
    /\ hist = [HistInit(E, budget) EXCEPT !.track = TRUE, !.pre = E]
    /\ stdin = <<>>
    /\ window_resize_pending = 0
    /\ pc = "loop"
    /\ keycode = "-1"

\* one cursor: editing, selection, clipboard, line operations, undo and redo
Init ==
    \E rows \in Buffers : \E p \in Positions(rows) :
        InitWith(editor_init(rows, p.line, p.column, <<>>), MaxSteps)

Next ==
    \/ KeyChar
    \/ KeyEnter
    \/ KeyBackspace
    \/ KeyDelete
    \/ KeyUndo
    \/ KeyRedo
    \/ KeyArrow
    \/ KeyShiftArrow
    \/ KeySelectAll
    \/ KeyCopy
    \/ KeyPaste
    \/ KeyDuplicateLine
    \/ KeyDeleteLine
    \/ Tick

Spec == Init /\ [][Next]_vars

\* several cursors: the batches, the keys that add and clear cursors; the
\* clock stands still, the passing of time is part of Spec
MultiBuffers == { << <<"a", "b">>, <<"c">> >>,
                  << <<" ">>, <<" ", "a">> >> }

RowPositions(rows) == {c \in Positions(rows) : c.line < Len(rows)}

InitMulti ==
    \E rows \in MultiBuffers : \E p \in RowPositions(rows) :
    \E S \in SUBSET (RowPositions(rows) \ {p}) :
        /\ Cardinality(S) \in 1..MaxCursors
        /\ InitWith(editor_init(rows, p.line, p.column,
                                SortCursors(SetToSeq(S), FALSE)), MaxMultiSteps)

NextMulti ==
    \/ KeyChar
    \/ KeyEnter
    \/ KeyBackspace
    \/ KeyUndo
    \/ KeyRedo
    \/ KeyArrow
    \/ KeyDuplicateLine
    \/ KeyDeleteLine
    \/ KeyAltUp
    \/ KeyAltDown
    \/ KeyAltC
    \/ KeyAltV
    \/ KeyEscape

SpecMulti == InitMulti /\ [][NextMulti]_vars

\* movement with several cursors: arrows, Home, End, and the keys that place
\* cursors
NextMove ==
    \/ KeyArrow
    \/ KeyHome
    \/ KeyEnd
    \/ KeyAltC
    \/ KeyAltV
    \/ KeyAltUp

InitMove ==
    \E rows \in MultiBuffers : \E p \in RowPositions(rows) :
    \E S \in SUBSET (RowPositions(rows) \ {p}) :
        /\ Cardinality(S) \in 1..MaxCursors
        /\ InitTracked(editor_init(rows, p.line, p.column,
                                   SortCursors(SetToSeq(S), FALSE)), MaxMoveSteps)

SpecMove == InitMove /\ [][NextMove]_vars

\* the Delete key with several cursors, after cursor movement and Backspace
NextDelete ==
    \/ KeyDelete
    \/ KeyBackspace
    \/ KeyArrow

InitDelete ==
    \E rows \in MultiBuffers : \E p \in RowPositions(rows) :
    \E S \in SUBSET (RowPositions(rows) \ {p}) :
        /\ Cardinality(S) \in 1..MaxCursors
        /\ InitTracked(editor_init(rows, p.line, p.column,
                                   SortCursors(SetToSeq(S), FALSE)), MaxDeleteSteps)

SpecDelete == InitDelete /\ [][NextDelete]_vars

\* quitting: the quit key, edits that dirty the buffer, saving, the menu
InitQuit ==
    \E rows \in Buffers : InitWith(editor_init(rows, 0, 0, <<>>), MaxQuitSteps)

NextQuit ==
    \/ KeyCtrlQ
    \/ KeyChar
    \/ KeyBackspace
    \/ KeySave
    \/ KeyArrow
    \/ KeyF10
    \/ KeyEscape
    \/ Tick

SpecQuit == InitQuit /\ [][NextQuit]_vars

\* editing, undo and redo, and replacing the buffer with another file
InitOpen ==
    \E rows \in Buffers : \E p \in Positions(rows) :
        InitWith(editor_init(rows, p.line, p.column, <<>>), MaxOpenSteps)

NextOpen ==
    \/ KeyChar
    \/ KeyEnter
    \/ KeyUndo
    \/ KeyRedo
    \/ KeyOpen
    \/ Tick

SpecOpen == InitOpen /\ [][NextOpen]_vars

\* a C file with block comments: the syntax scanner runs on every row update
SyntaxBuffers == { << <<"/", "*">>, <<"*", "/">>, <<"a">> >>,
                   << <<"a">>, <<"/", "*", "a">> >> }

InitSyntax ==
    \E rows \in SyntaxBuffers : \E p \in Positions(rows) :
        InitWith([editor_open([editor_init(<<>>, 0, 0, <<>>) EXCEPT !.syntax = TRUE], rows)
                     EXCEPT !.cursor_y = p.line, !.cursor_x = p.column],
                 MaxSyntaxSteps)

NextSyntax ==
    \/ KeyChar
    \/ KeyEnter
    \/ KeyBackspace
    \/ KeyDeleteLine
    \/ KeyArrow

SpecSyntax == InitSyntax /\ [][NextSyntax]_vars

\* toggling comments on the lines of a C file
CommentLines == { <<"x">>, <<" ", "x">>, <<>>,
                  <<"/", "/", "x">>, <<"/", "/", " ", "x">>, <<" ", "/", "/", "x">>,
                  <<"/", "*", "x", "*", "/">>, <<"/", "*", " ", "x", " ", "*", "/">> }

InitComment ==
    \E line \in CommentLines : \E p \in Positions(<<line>>) :
        InitWith([editor_open([editor_init(<<>>, 0, 0, <<>>) EXCEPT !.syntax = TRUE],
                              <<line>>)
                     EXCEPT !.cursor_y = p.line, !.cursor_x = p.column],
                 MaxCommentSteps)

NextComment ==
    \/ KeyToggleLineComment
    \/ KeyToggleBlockComment

SpecComment == InitComment /\ [][NextComment]_vars

\* paragraphs to reflow and join: a word longer than the wrap column, three
\* words of 30, a word of 40 across the wrap column, short rows, comment rows
Rep(c, n) == [i \in 1..n |-> c]

ReflowBuffers ==
    { << Rep("a", DEFAULT_WRAP_COLUMN + 5) >>,
      << Rep("a", 30) \o <<" ">> \o Rep("b", 30) \o <<" ">> \o Rep("c", 30) >>,
      << Rep("x", 50) \o <<" ">> \o Rep("y", 40) >>,
      << <<"a", "b">>, <<"c">> >>,
      << <<"/", "/", " ", "a", "b">>, <<"/", "/", " ", "c">> >> }

InitReflow ==
    \E rows \in ReflowBuffers : \E p \in Positions(rows) :
        InitWith(editor_init(rows, p.line, p.column, <<>>), MaxReflowSteps)

NextReflow ==
    \/ KeyReflow
    \/ KeyJoin
    \/ KeyArrow

SpecReflow == InitReflow /\ [][NextReflow]_vars

\* a C file with brackets inside and outside block comments, a comment
\* without end marker, and a line comment with an apostrophe
BracketBuffers ==
    { << <<"/", "*", "(", "*", "/", ")">> >>,
      << <<"(", "/", "*">>, <<")">> >>,
      << <<"/", "/", "'">>, <<"/", "*", "(", ")", "*", "/">> >>,
      << <<"(", "a", ")">>, <<"/", "*", "[", "*", "/">> >> }

InitBracket ==
    \E rows \in BracketBuffers : \E p \in Positions(rows) :
        InitWith([editor_open([editor_init(<<>>, 0, 0, <<>>) EXCEPT !.syntax = TRUE], rows)
                     EXCEPT !.cursor_y = p.line, !.cursor_x = p.column],
                 MaxBracketSteps)

NextBracket ==
    \/ FindMatchingBracket
    \/ KeyJumpBracket
    \/ KeyArrow
    \/ KeyChar

SpecBracket == InitBracket /\ [][NextBracket]_vars

\* one cursor at the edges of the buffer and of the undo history
InitFrame ==
    \E rows \in Buffers : \E p \in Positions(rows) :
        InitTracked(editor_init(rows, p.line, p.column, <<>>), MaxFrameSteps)

NextFrame ==
    \/ KeyChar
    \/ KeyEnter
    \/ KeyBackspace
    \/ KeyDelete
    \/ KeyUndo
    \/ KeyRedo
    \/ KeyArrow
    \/ Tick

SpecFrame == InitFrame /\ [][NextFrame]_vars

\* rows with tabs to click on
TabBuffers ==
    { << <<"a", "\t", "b">> >>,
      << <<"\t", "\t">>, <<"a", "b">> >>,
      << <<"a", "b", "c", "d", "e", "f", "g", "\t", "h">> >>,
      << <<>>, <<"\t", "a">> >> }

InitTabs ==
    \E rows \in TabBuffers : \E p \in Positions(rows) :
        InitWith(editor_init(rows, p.line, p.column, <<>>), MaxTabSteps)

NextTabs ==
    \/ MouseShiftClick
    \/ KeyChar
    \/ KeyBackspace

SpecTabs == InitTabs /\ [][NextTabs]_vars

\* rows to wrap: ten one-letter words, a row with tabs, a row without white
\* space, two rows of short words, a row of spaces
WrapBuffers ==
    { << [i \in 1..20 |-> IF i % 2 = 1 THEN "a" ELSE " "] >>,
      << <<"a", "\t", "b", "\t", "c">> >>,
      << Rep("a", 9) >>,
      << <<"a", "b", " ", "c", "d">>, <<" ", "e", "f", "g", " ", " ", "h">> >>,
      << Rep(" ", 6) >> }

InitWrap ==
    \E rows \in WrapBuffers : \E p \in Positions(rows) :
        InitWith(editor_init(rows, p.line, p.column, <<>>), MaxWrapSteps)

NextWrap ==
    \/ CalculateWrapBreaks
    \/ KeyChar
    \/ KeyEnter
    \/ KeyBackspace

SpecWrap == InitWrap /\ [][NextWrap]_vars

\* long sessions: the undo log after thousands of typed characters, then a
\* few more keys
InitLog ==
    \E count \in LogCounts, group_size \in LogGroupSizes :
        InitWith(editor_after_typing(count, group_size), MaxLogSteps)

NextLog ==
    \/ KeyChar
    \/ KeyEnter
    \/ KeyBackspace
    \/ Tick

SpecLog == InitLog /\ [][NextLog]_vars

\* the same keys with the stack about to be full at its final capacity
InitTrim ==
    \E count \in TrimCounts, group_size \in LogGroupSizes :
        InitWith(editor_after_typing(count, group_size), MaxLogSteps)

SpecTrim == InitTrim /\ [][NextLog]_vars

\* the decoder alone, on the sequences terminals send
AltLetters == {"t", "T", "l", "L", "q", "Q", "j", "J", "s", "S", "r", "R",
               "n", "N", "w", "W", "c", "C", "v", "V", "z", "Z", "m", "M"}

KeySequences ==
    {<<ESC>>, <<"a">>}
    \cup {<<ESC, c>> : c \in AltLetters \cup {"]", "["}}
    \cup {<<ESC, "[", k>> : k \in {"A", "B", "C", "D", "H", "F", "Z"}}
    \cup {<<ESC, "O", k>> : k \in {"H", "F", "P"}}
    \cup {<<ESC, "[", n, "~">> : n \in Digits}
    \cup {<<ESC, "[", "2", n, "~">> : n \in {"0", "1"}}
    \cup {<<ESC, "[", "1", "5", "~">>, <<ESC, "[", "3", ";", "5", "~">>,
          <<ESC, "[", "<", "0", ";", "1", ";", "2", "M">>}
    \cup {<<ESC, "[", "1", ";", m, k>> :
              m \in {"2", "3", "4", "5"}, k \in {"A", "B", "C", "D", "H", "F"}}

InitDecode ==
    \E s \in KeySequences : \E t \in {<<>>, <<"a">>} :
        /\ editor = editor_init(<<>>, 0, 0, <<>>)
        /\ clock = 0
        /\ clipboard_content = NULLSTR
        /\ quit_times = MITER_QUIT_TIMES
        /\ exited = FALSE
        /\ last_key = "none"
        /\ steps = 0
        /\ hist = HistInit(editor_init(<<>>, 0, 0, <<>>), MaxDecodeSteps)
        /\ stdin = s \o t
        /\ window_resize_pending = 0
        /\ pc = "loop"
        /\ keycode = "-1"

NextDecode == ReadKey

SpecDecode == InitDecode /\ [][NextDecode]_vars

\* sequences the decoder does not know, followed to the buffer
UnknownSequences ==
    {<<ESC>>, <<"a">>,
     <<ESC, "[", "1", "5", "~">>, <<ESC, "[", "2", "0", "~">>,
     <<ESC, "[", "1", ";", "5", "A">>, <<ESC, "O", "P">>,
     <<ESC, "[", "1", "5", ";", "5", "~">>}

InitInput ==
    \E rows \in Buffers : \E p \in Positions(rows) : \E s \in UnknownSequences :
        /\ editor = editor_init(rows, p.line, p.column, <<>>)
        /\ clock = 0
        /\ clipboard_content = NULLSTR
        /\ quit_times = MITER_QUIT_TIMES
        /\ exited = FALSE
        /\ last_key = "none"
        /\ steps = 0
        /\ hist = HistInit(editor_init(rows, p.line, p.column, <<>>), MaxInputSteps)
        /\ stdin = s
        /\ window_resize_pending = 0
        /\ pc = "loop"
        /\ keycode = "-1"

NextInput == ReadKeypress

SpecInput == InitInput /\ [][NextInput]_vars

\* searching: Ctrl-F and the keys of its prompt, on rows with repeated and
\* overlapping text and a tab, with and without secondary cursors
FindBuffers == { << <<"a", "b", "a">>, <<"a", "a", "a">> >>,
                 << <<"\t", "a">>, <<"b">> >> }

InitFind ==
    \E rows \in FindBuffers : \E p \in RowPositions(rows) :
        \E cs \in {<<>>} \cup {<<c>> : c \in RowPositions(rows) \ {p}} :
            InitTracked(editor_init(rows, p.line, p.column, cs), MaxFindSteps)

NextFind ==
    \/ KeyFind
    \/ KeyPrompt

SpecFind == InitFind /\ [][NextFind]_vars

\* the loop of main with SIGWINCH: the user presses the keys of hist.keys
\* one after the other, the signal arrives between any two steps
\* what the user types: searches that are entered or cancelled and ESC
\* outside a prompt, then possibly a search that is left open
Gestures == {<<ESC>>, <<CTRL_F, "a", CR>>, <<CTRL_F, ESC>>, <<CTRL_F, "a", ESC>>}
Unfinished == {<<>>, <<CTRL_F>>, <<CTRL_F, "a">>, <<CTRL_F, CR>>}

RECURSIVE Typed(_)
Typed(n) ==
    IF n = 0 THEN Unfinished
    ELSE Typed(n - 1) \cup {g \o t : g \in Gestures, t \in Typed(n - 1)}

TypedAhead == Typed(MaxGestures)

InitResize ==
    \E rows \in Buffers : \E p \in Positions(rows) : \E typed \in TypedAhead :
        /\ editor = editor_init(rows, p.line, p.column, <<>>)
        /\ clock = 0
        /\ clipboard_content = NULLSTR
        /\ quit_times = MITER_QUIT_TIMES
        /\ exited = FALSE
        /\ last_key = "none"
        /\ steps = 0
        /\ hist = [HistInit(editor_init(rows, p.line, p.column, <<>>), 3 * MaxGestures + 3)
                      EXCEPT !.keys = typed]
        /\ stdin = <<>>
        /\ window_resize_pending = 0
        /\ pc = "loop"
        /\ keycode = "-1"

ProgramStep ==
    \/ LoopTest
    \/ LoopClear
    \/ HandleResizeBegin
    \/ HandleResizeEnd
    \/ RefreshScreen
    \/ ProcessKeypress
    \/ PromptRead

NextResize ==
    \/ handle_sigwinch
    \/ UserTypes
    \/ LoopTest
    \/ LoopClear
    \/ HandleResizeBegin
    \/ HandleResizeEnd
    \/ RefreshScreen
    \/ ProcessKeypress
    \/ PromptRead

\* the program always takes its next step; nothing is assumed about signals
\* or about the user
SpecResize == InitResize /\ [][NextResize]_vars /\ WF_vars(ProgramStep)

---------------------------------------------------------------------------
(* Properties *)

\* C1: after edits that produced k undo groups, k undos (the redo position is
\* back at 0) leave the rows exactly as they were before the edits.
C1_UndoPeelOff ==
    (hist.phase = "undo" /\ editor.undo_position = 0 /\ ~editor.crashed)
        => editor.row = hist.rows0

\* C2: after edits, undo until nothing is left to undo, then redo until
\* nothing is left to redo, the rows are exactly the rows after the edits.
C2_RedoRoundTrip ==
    (hist.phase = "redo" /\ editor.undo_position >= editor.undo_group_id
        /\ ~editor.crashed)
        => editor.row = hist.post

\* the entries logged by the undo_log call before entry i's, and entry i,
\* are neighbours in the log (nothing between them was truncated)
Consecutive(i) ==
    editor.undo_stack[i].g_seq = editor.undo_stack[i - 1].g_seq + 1

FreshGroup(i) ==
    \A j \in 1..(i - 1) : editor.undo_stack[j].group_id # editor.undo_stack[i].group_id

\* C6: an undo_log call within 500 ms of the previous call of any kind gets
\* the previous entry's group id, unless its kind forces a group, which
\* always gets a fresh id; a call more than 500 ms later gets a fresh id.
C6_UndoGrouping ==
    ~editor.crashed =>
    \A i \in 2..Len(editor.undo_stack) :
        Consecutive(i) =>
            LET e == editor.undo_stack[i]
                p == editor.undo_stack[i - 1]
            IN IF ForcesNewGroup(e.op_type) THEN FreshGroup(i)
               ELSE IF e.g_time - p.g_time <= UNDO_GROUP_TIMEOUT_MS
                    THEN e.group_id = p.group_id
                    ELSE FreshGroup(i)

\* C9: every key other than undo and redo that changes the rows appends at
\* least one entry to the undo log.
C9_EveryMutationLogged ==
    [][(editor'.row # editor.row /\ last_key' \notin {"undo", "redo"}
            /\ ~editor'.crashed)
        => editor'.g_nlogs > editor.g_nlogs]_vars

\* C10: with a dirty buffer the editor exits on the third consecutive press
\* of the quit key and on no earlier press; with a clean buffer it exits on
\* the first press.
C10_QuitProtection ==
    /\ (exited /\ editor.dirty # 0) => hist.presses = MITER_QUIT_TIMES
    /\ (hist.presses >= MITER_QUIT_TIMES /\ editor.dirty # 0) => exited
    /\ (hist.presses >= 1 /\ editor.dirty = 0) => exited

\* C11: every key processed other than the quit key resets the quit counter,
\* so that the next quit press on a dirty buffer counts as the first again;
\* this includes F10 and the menu navigation keys while a menu is open.
C11_QuitCounterReset ==
    [][(steps' = steps + 1 /\ last_key' # "quit")
        => quit_times' = MITER_QUIT_TIMES]_vars

\* C12: the undo log never holds more than UNDO_MAX_ENTRIES entries (an append
\* that would exceed the limit first removes the oldest quarter).
C12_UndoLogBound ==
    Len(editor.undo_stack) <= UNDO_MAX_ENTRIES

\* C13: every entry of the log is the first one logged of its group or follows
\* an entry of its group: no group in the log has lost its oldest entries.
C13_TrimKeepsGroupsWhole ==
    \A i \in 1..Len(editor.undo_stack) :
        \/ editor.undo_stack[i].g_first
        \/ i > 1 /\ editor.undo_stack[i - 1].group_id = editor.undo_stack[i].group_id

\* C14: the group ids of the entries in the undo log are non-decreasing from
\* the oldest entry to the newest.
C14_GroupIdsMonotonic ==
    \A i \in 2..Len(editor.undo_stack) :
        editor.undo_stack[i - 1].group_id <= editor.undo_stack[i].group_id

RECURSIVE OpenAfter(_, _)
\* the in-block-comment state after scanning rows 1..i in order
OpenAfter(rows, i) ==
    IF i = 0 THEN FALSE ELSE ScanComment(rows[i], 0, "", OpenAfter(rows, i - 1))

\* C15: open_comment of every row is the in-block-comment state the scanner
\* reaches by scanning the rows from the first one to that row, in order.
C15_OpenCommentIsScan ==
    (editor.syntax /\ ~editor.crashed)
        => \A i \in 1..Len(editor.row) :
               editor.open_comment[i] = OpenAfter(editor.row, i)

\* C16: toggle_line_comment applied twice in succession with one cursor
\* leaves the rows as they were before the first of the two.
C16_LineToggleTwice ==
    [][(last_key = "toggle_line" /\ last_key' = "toggle_line" /\ steps' = steps + 1)
        => editor'.row = hist.pre_rows]_vars

\* C17: toggle_block_comment applied twice in succession with one cursor
\* leaves the rows as they were before the first of the two.
C17_BlockToggleTwice ==
    [][(last_key = "toggle_block" /\ last_key' = "toggle_block" /\ steps' = steps + 1)
        => editor'.row = hist.pre_rows]_vars

\* the selection select_all leaves: from the start of the buffer to the end
\* of its last row, the cursor at its end
AllSelected(E) ==
    /\ Len(E.row) > 0
    /\ E.selection.active
    /\ E.selection.anchor = Pos(0, 0)
    /\ E.selection.cursor = Pos(Len(E.row) - 1, LineSize(E, Len(E.row) - 1))
    /\ E.cursor_y = Len(E.row) - 1 /\ E.cursor_x = LineSize(E, Len(E.row) - 1)

\* C18: select_all, copy, paste leave the rows as they were: pasting the copy
\* of the whole buffer over the selection of the whole buffer changes no row.
C18_SelectAllCopyPaste ==
    [][(last_key = "copy" /\ last_key' = "paste" /\ steps' = steps + 1
        /\ AllSelected(editor) /\ clipboard_content = selection_get_text(editor)
        /\ ~editor'.crashed)
        => editor'.row = editor.row]_vars

RECURSIVE Words(_, _)
\* the words of chars from index i on: maximal runs without white space
Words(chars, i) ==
    LET starts == {s \in i..Len(chars) : ~character_is_whitespace(chars[s])}
        End(s) == Min({e \in s..Len(chars) :
                          e = Len(chars) \/ character_is_whitespace(chars[e + 1])})
        From(s) == << SubSeq(chars, s, End(s)) >> \o Words(chars, End(s) + 1)
    IN IF starts = {} THEN <<>> ELSE From(Min(starts))

RECURSIVE ParagraphWords(_, _, _)
\* the words of rows first..last (1-based), each row without its prefix
ParagraphWords(rows, first, last) ==
    IF first > last THEN <<>>
    ELSE Words(rows[first], detect_line_prefix(rows[first]) + 1)
         \o ParagraphWords(rows, first + 1, last)

RECURSIVE JoinWords(_)
JoinWords(words) ==
    IF words = <<>> THEN <<>>
    ELSE IF Len(words) = 1 THEN words[1]
    ELSE words[1] \o <<" ">> \o JoinWords(Tail(words))

\* the rows with the paragraph around row y (1-based) as one row: the prefix
\* of its first row, then its words a single space apart
ParagraphAsOneRow(rows, y) ==
    LET first == Min({f \in 1..y : \A k \in f..y : rows[k] # <<>>})
        last == Max({l \in y..Len(rows) : \A k \in y..l : rows[k] # <<>>})
    IN SubSeq(rows, 1, first - 1)
       \o << SubSeq(rows[first], 1, detect_line_prefix(rows[first]))
              \o JoinWords(ParagraphWords(rows, first, last)) >>
       \o SubSeq(rows, last + 1, Len(rows))

\* the position of (line, column) in the text of the rows, the rows joined
\* by one newline each
RECURSIVE Offset(_, _, _)
Offset(rows, line, column) ==
    IF line = 0 THEN column ELSE Len(rows[line]) + 1 + Offset(rows, line - 1, column)

AllCursorSet(E) ==
    {Cur(E.cursor_y, E.cursor_x)} \cup {E.cursors[i] : i \in 1..Len(E.cursors)}

\* where cursor c is after every cursor of cs deleted the character (or the
\* newline) before it: c stays after the same surviving character
AfterBackspaces(rows, cs, c) ==
    LET D == {Offset(rows, d.line, d.column) - 1 : d \in cs} \ {-1}
        NL == {Offset(rows, l, 0) - 1 : l \in 1..(Len(rows) - 1)} \ D
        Shift(o) == o - Cardinality({d \in D : d < o})
        Place(off, before) ==
            Cur(Cardinality(before),
                IF before = {} THEN Shift(off) ELSE Shift(off) - (Shift(Max(before)) + 1))
    IN Place(Offset(rows, c.line, c.column),
             {d \in NL : d < Offset(rows, c.line, c.column)})

\* the rows with each row whose index is in lines followed by one copy of it
RECURSIVE WithCopies(_, _, _)
WithCopies(rows, lines, i) ==
    IF i > Len(rows) THEN <<>>
    ELSE (IF i - 1 \in lines THEN <<rows[i], rows[i]>> ELSE <<rows[i]>>)
         \o WithCopies(rows, lines, i + 1)

\* the rows without the rows whose index is in lines
RECURSIVE Without(_, _, _)
Without(rows, lines, i) ==
    IF i > Len(rows) THEN <<>>
    ELSE (IF i - 1 \in lines THEN <<>> ELSE <<rows[i]>>) \o Without(rows, lines, i + 1)

CursorLines(E) == {c.line : c \in AllCursorSet(E)}

\* C27: with several cursors, duplicate-line inserts exactly one copy of each
\* row that holds a cursor and delete-line removes exactly the rows that hold
\* a cursor, however many cursors are on a row; after a duplication the
\* cursors of a row are on its copy.
C27_OncePerRow ==
    [][(/\ steps' = steps + 1
        /\ Len(editor.cursors) > 0
        /\ ~editor.crashed /\ ~editor'.crashed
        /\ \A c \in AllCursorSet(editor) : c.line < Len(editor.row))
        => /\ last_key' = "duplicate_line" =>
                 /\ editor'.row = WithCopies(editor.row, CursorLines(editor), 1)
                 /\ CursorLines(editor')
                       = {l + Cardinality({k \in CursorLines(editor) : k <= l}) :
                              l \in CursorLines(editor)}
           /\ last_key' = "delete_line" =>
                 editor'.row = Without(editor.row, CursorLines(editor), 1)]_vars

\* C26: after a backspace with several cursors every cursor is where its own
\* deletion and the deletions of the others leave it: after the same
\* surviving character as before; a cursor on a row merged into the previous
\* one is shifted by the length that row had.
C26_BackspaceRepositions ==
    [][(/\ last_key' = "backspace" /\ steps' = steps + 1
        /\ Len(editor.cursors) > 0
        /\ ~editor.selection.active
        /\ ~editor.crashed /\ ~editor'.crashed
        /\ Cardinality(AllCursorSet(editor)) = Len(editor.cursors) + 1
        /\ \A c \in AllCursorSet(editor) :
               c.line < Len(editor.row) /\ c.column <= Len(editor.row[c.line + 1]))
        => /\ Cur(editor'.cursor_y, editor'.cursor_x)
                 = AfterBackspaces(editor.row, AllCursorSet(editor),
                                   Cur(editor.cursor_y, editor.cursor_x))
           /\ AllCursorSet(editor')
                 = {AfterBackspaces(editor.row, AllCursorSet(editor), c) :
                        c \in AllCursorSet(editor)}]_vars

\* the rows, the cursors, the dirty counter and the undo log of the editor
\* are those before the last key
SameDocument ==
    /\ editor.row = hist.pre.row
    /\ editor.cursor_y = hist.pre.cursor_y
    /\ editor.cursor_x = hist.pre.cursor_x
    /\ editor.cursors = hist.pre.cursors
    /\ editor.dirty = hist.pre.dirty
    /\ editor.undo_stack = hist.pre.undo_stack
    /\ editor.undo_group_id = hist.pre.undo_group_id
    /\ editor.undo_position = hist.pre.undo_position

SingleCursorNoSelection(E) ==
    Len(E.cursors) = 0 /\ ~E.selection.active /\ ~E.crashed

\* C23: the Delete key with the single cursor at the end of the last row and
\* no selection leaves the rows, the cursor, the dirty counter and the undo
\* log as they were.
C23_DeleteAtEndNoOp ==
    (/\ last_key = "delete"
     /\ SingleCursorNoSelection(hist.pre)
     /\ Len(hist.pre.row) > 0
     /\ hist.pre.cursor_y = Len(hist.pre.row) - 1
     /\ hist.pre.cursor_x = Len(hist.pre.row[Len(hist.pre.row)]))
        => SameDocument

\* C24: backspace with the single cursor at (0,0) and no selection leaves the
\* rows, the cursor, the dirty counter and the undo log (entries, group id,
\* redo position) as they were.
C24_BackspaceAtOriginNoOp ==
    (/\ last_key = "backspace"
     /\ SingleCursorNoSelection(hist.pre)
     /\ hist.pre.cursor_y = 0
     /\ hist.pre.cursor_x = 0)
        => SameDocument

\* C25: undo at redo position 0 and redo at a redo position equal to the
\* group id change nothing of the rows, the cursors and the undo log, and
\* set the status message "Nothing to undo" / "Nothing to redo".
C25_NothingToUndoRedo ==
    /\ (last_key = "undo" /\ ~hist.pre.crashed /\ hist.pre.undo_position = 0)
          => SameDocument /\ editor.status_message = "Nothing to undo"
    /\ (last_key = "redo" /\ ~hist.pre.crashed
           /\ hist.pre.undo_position = hist.pre.undo_group_id)
          => SameDocument /\ editor.status_message = "Nothing to redo"

\* the cursor (y, x) is inside a block comment of the rows as the syntax
\* scanner reads them: the scan of the file up to the cursor ends inside a
\* comment, and the cursor is not between the two characters of its end marker
InsideBlockComment(rows, y, x) ==
    /\ y < Len(rows)
    /\ x <= Len(rows[y + 1])
    /\ ScanComment(SubSeq(rows[y + 1], 1, x), 0, "", OpenAfter(rows, y))
    /\ ~(x >= 1 /\ StartsAt(rows[y + 1], x - 1, <<"*", "/">>))

EndMarkersFrom(rows, y, x) ==
    { p \in { <<r, c>> : r \in y..(Len(rows) - 1), c \in 0..MaxClickX } :
        /\ p[1] > y \/ p[2] >= x
        /\ StartsAt(rows[p[1] + 1], p[2], <<"*", "/">>) }

\* C22: when the matcher ran with the cursor inside a block comment, the
\* recorded pair is a start marker before the cursor and an end marker
\* after it, and the state is unset when no end marker follows the cursor.
C22_CommentPairMatched ==
    LET g == editor.g_bracket
        b == editor.bracket
    IN (g.ran /\ editor.syntax /\ InsideBlockComment(g.rows, g.cursor_y, g.cursor_x)) =>
          IF EndMarkersFrom(g.rows, g.cursor_y, g.cursor_x) = {}
          THEN b = NoBracket
          ELSE /\ <<b.close_row, b.close_col>> \in EndMarkersFrom(g.rows, g.cursor_y, g.cursor_x)
               /\ b.close_len = 2
               /\ b.open_len = 2
               /\ b.open_row \in 0..g.cursor_y
               /\ StartsAt(g.rows[b.open_row + 1], b.open_col, <<"/", "*">>)
               /\ b.open_row < g.cursor_y \/ b.open_col + 2 <= g.cursor_x

\* C21: the cursor column a click at render column rx lands on is the
\* largest column of the row whose render column is at most rx, and on
\* every row render_to_cursor(cursor_to_render(cx)) = cx for each column cx.
C21_RenderToCursorLargest ==
    (last_key = "shift_click" /\ InRows(editor, editor.cursor_y)) =>
        LET chars == editor.row[editor.cursor_y + 1]
        IN /\ editor.cursor_x \in 0..Len(chars)
           /\ editor_row_cursor_to_render(chars, editor.cursor_x) <= editor.g_click_x
           /\ \A cx \in 0..Len(chars) :
                  editor_row_cursor_to_render(chars, cx) <= editor.g_click_x
                      => cx <= editor.cursor_x
           /\ \A cx \in 0..Len(chars) :
                  editor_row_render_to_cursor(chars,
                      editor_row_cursor_to_render(chars, cx)) = cx

C19_ReflowThenJoin ==
    [][(last_key = "reflow" /\ last_key' = "join" /\ steps' = steps + 1
        /\ editor.cursor_y < Len(hist.pre_rows)
        /\ hist.pre_rows[editor.cursor_y + 1] # <<>>
        /\ ~editor'.crashed)
        => editor'.row = ParagraphAsOneRow(hist.pre_rows, editor.cursor_y + 1)]_vars

InBounds(E, c) ==
    /\ c.line >= 0 /\ c.line <= Len(E.row)
    /\ c.column >= 0 /\ c.column <= LineSize(E, c.line)

Primary(E) == Cur(E.cursor_y, E.cursor_x)

AllInBounds(E) ==
    /\ InBounds(E, Primary(E))
    /\ \A i \in 1..Len(E.cursors) : InBounds(E, E.cursors[i])

EditKeys == {"char", "enter", "backspace", "delete", "paste", "delete_line",
             "duplicate_line", "undo", "redo"}

\* C3: every editing operation (insert, delete, newline, line operation,
\* undo, redo) that starts with the primary and every secondary cursor inside
\* the buffer bounds ends with all of them inside the buffer bounds.
C3_CursorBounds ==
    [][(AllInBounds(editor) /\ last_key' \in EditKeys /\ steps' # steps
            /\ ~editor'.crashed)
        => AllInBounds(editor')]_vars

AllCursors(E) == {Primary(E)} \cup {E.cursors[i] : i \in 1..Len(E.cursors)}

RECURSIVE InsertCols(_, _, _)
\* a row with ch inserted at each column of S (columns of the original row)
InsertCols(row, S, ch) ==
    IF S = {} THEN row
    ELSE InsertCols(InsertAt(row, Max(S), ch), S \ {Max(S)}, ch)

\* original column + number of original cursors on the line at or before it
ShiftedBy(all, c) ==
    Cur(c.line, c.column + Cardinality({d \in all : d.line = c.line
                                                      /\ d.column <= c.column}))

C4_Pre ==
    /\ Len(editor.cursors) > 0
    /\ ~editor.selection.active
    /\ Cardinality(AllCursors(editor)) = Len(editor.cursors) + 1
    /\ AllInBounds(editor)
    /\ last_key' = "char" /\ steps' # steps

C4_Post ==
    LET all == AllCursors(editor) IN
    /\ ~editor'.crashed
    /\ Len(editor'.row) = Len(editor.row)
                           + (IF \E c \in all : c.line = Len(editor.row) THEN 1 ELSE 0)
    /\ \A y \in 0..Len(editor.row) :
          RowAt(editor', y) = InsertCols(RowAt(editor, y),
                                         {c.column : c \in {d \in all : d.line = y}},
                                         hist'.ch)
    /\ Primary(editor') = ShiftedBy(all, Primary(editor))
    /\ AllCursors(editor') = {ShiftedBy(all, c) : c \in all}

\* C4: with primary and secondaries at pairwise distinct in-bounds positions
\* and no selection, typing one character inserts it at every cursor's
\* original position, keeps every cursor on its line, and moves each cursor
\* to its original column plus the number of original cursors on the same
\* line at or before that column.
C4_MultiInsert == [][C4_Pre => C4_Post]_vars

NewEntries(E0, E1) ==
    {i \in 1..Len(E1.undo_stack) : E1.undo_stack[i].g_seq > E0.g_nlogs}

\* C5: all undo entries logged by one multi-cursor insert, backspace or
\* newline carry one group id, and the undo pressed right after such a batch
\* restores the rows to their content before the batch.
C5_BatchAtomic ==
    [][/\ (Len(editor.cursors) > 0 /\ last_key' \in BatchKeys /\ steps' # steps
              /\ ~editor'.crashed)
          => \A i, j \in NewEntries(editor, editor') :
                editor'.undo_stack[i].group_id = editor'.undo_stack[j].group_id
       /\ (hist.batch /\ last_key' = "undo" /\ steps' # steps /\ ~editor'.crashed)
          => editor'.row = hist.pre_rows]_vars

\* C7: when an edit is logged while the redo position is below the highest
\* group id, the entries above the redo position are discarded before the
\* new entry is appended: afterwards none of them is left, no entry is above
\* the new top, nothing can be redone, and from redo position 0 the log holds
\* the new edit only, one group per undo.
C7_RedoTruncation ==
    [][(editor'.g_nlogs > editor.g_nlogs /\ editor.undo_position < editor.undo_group_id
            /\ ~editor'.crashed)
        => /\ \A i \in 1..Len(editor'.undo_stack) :
                 editor'.undo_stack[i].g_seq <= editor.g_nlogs
                     => editor'.undo_stack[i].group_id <= editor.undo_position
           /\ \A i \in 1..Len(editor'.undo_stack) :
                 editor'.undo_stack[i].group_id <= editor'.undo_group_id
           /\ editor'.undo_position = editor'.undo_group_id
           /\ editor.undo_position = 0
                 => editor'.undo_group_id =
                       Cardinality({editor'.undo_stack[i].group_id :
                                       i \in NewEntries(editor, editor')})]_vars

\* C8: right after multicursor_remove_duplicates no two secondary cursors
\* share a position, and no secondary is at the primary's position unless
\* allow_primary_overlap is set, when at most one is.
C8_DedupPostcondition ==
    editor.g_dedup.ran =>
        LET d == editor.g_dedup
            at_primary == {i \in 1..Len(d.cursors) : d.cursors[i] = Cur(d.line, d.column)}
        IN /\ \A i, j \in 1..Len(d.cursors) : i # j => d.cursors[i] # d.cursors[j]
           /\ Cardinality(at_primary) <= (IF d.overlap THEN 1 ELSE 0)

---------------------------------------------------------------------------
(* Reachable states that show each property's case *)

AB_C == << <<"a", "b">>, <<"c">> >>
SP_SPA == << <<" ">>, <<" ", "a">> >>

\* backspace at (1,0) of [ab, c] merged the rows; the one undo left [abc, c]
C1_MergeNotRestored ==
    /\ hist.rows0 = AB_C /\ hist.phase = "undo" /\ steps = 2
    /\ editor.undo_position = 0
    /\ Len(editor.undo_stack) = 1 /\ editor.undo_stack[1].op_type = UNDO_ROW_DELETE
    /\ editor.row = << <<"a", "b", "c">>, <<"c">> >>

\* Enter at (0,0) of [ab, c], undo, redo: the redo left [ab, ab, c]
C2_RowInsertRedone ==
    /\ hist.rows0 = AB_C /\ hist.phase = "redo" /\ steps = 3
    /\ hist.post = << <<>>, <<"a", "b">>, <<"c">> >>
    /\ editor.undo_position = editor.undo_group_id
    /\ editor.undo_stack[1].op_type = UNDO_ROW_INSERT
    /\ editor.row = << <<"a", "b">>, <<"a", "b">>, <<"c">> >>

\* '}' typed at (0,0), (1,1), (1,2) of [" ", " a"]: row 1 was unindented to
\* "}a}" and a secondary cursor stands at column 4
C3_CursorPastRowEnd ==
    /\ hist.rows0 = SP_SPA /\ steps = 1 /\ last_key = "char" /\ hist.ch = "}"
    /\ ~editor.crashed
    /\ editor.row = << <<"}", " ">>, <<"}", "a", "}">> >>
    /\ \E i \in 1..Len(editor.cursors) : editor.cursors[i] = Cur(1, 4)

\* '}' typed at (0,0) and (1,1) of [" ", " a"]: row 1 is "}a", not " }a"
C4_RowUnindented ==
    /\ hist.rows0 = SP_SPA /\ steps = 1 /\ last_key = "char" /\ hist.ch = "}"
    /\ Len(editor.cursors) = 1 /\ ~editor.crashed
    /\ editor.row = << <<"}", " ">>, <<"}", "a">> >>
    /\ Primary(editor) = Cur(0, 1) /\ editor.cursors[1] = Cur(1, 2)

\* Enter with cursors at (0,0) and (1,0): two row-insert entries, two groups
C5_NewlineBatchSplit ==
    /\ steps = 1 /\ last_key = "enter" /\ hist.batch /\ ~editor.crashed
    /\ Len(editor.undo_stack) = 2
    /\ editor.undo_stack[1].op_type = UNDO_ROW_INSERT
    /\ editor.undo_stack[2].op_type = UNDO_ROW_INSERT
    /\ editor.undo_stack[1].group_id # editor.undo_stack[2].group_id

\* a character at 0 ms, Enter at 300 ms, a character at 600 ms: the third
\* entry, 300 ms after the second, has a group of its own
C6_ForcedCallHidesTime ==
    /\ Len(editor.undo_stack) = 3 /\ ~editor.crashed
    /\ editor.undo_stack[1].op_type = UNDO_CHAR_INSERT /\ editor.undo_stack[1].g_time = 0
    /\ editor.undo_stack[2].op_type = UNDO_ROW_SPLIT /\ editor.undo_stack[2].g_time = TickMs
    /\ editor.undo_stack[3].op_type = UNDO_CHAR_INSERT
    /\ editor.undo_stack[3].g_time = 2 * TickMs
    /\ editor.undo_stack[3].group_id # editor.undo_stack[2].group_id

\* a batch, its undo, a second batch: the first batch's entries are still
\* in the log, below the second batch's
C7_UndoneEntriesKept ==
    /\ steps = 3 /\ last_key = "char" /\ ~editor.crashed
    /\ Len(editor.undo_stack) = 4 /\ editor.g_nlogs = 4
    /\ editor.undo_stack[1].group_id = 1 /\ editor.undo_stack[2].group_id = 1
    /\ editor.undo_stack[3].group_id = 2 /\ editor.undo_stack[4].group_id = 2
    /\ editor.undo_position = 2

\* a pass that dropped a secondary at the primary and collapsed two others
C8_DedupRemoved ==
    /\ editor.g_dedup.ran
    /\ editor.g_dedup.first < editor.g_dedup.before
    /\ Len(editor.g_dedup.cursors) < editor.g_dedup.first
    /\ Len(editor.g_dedup.cursors) >= 1

\* duplicate-line changed the rows and logged nothing
C9_DuplicateUnlogged ==
    /\ steps = 1 /\ last_key = "duplicate_line"
    /\ editor.row # hist.rows0 /\ editor.g_nlogs = 0 /\ Len(editor.undo_stack) = 0

\* three consecutive presses on a dirty buffer and the editor still runs
C10_ThirdPressIgnored ==
    /\ hist.presses = MITER_QUIT_TIMES /\ editor.dirty # 0 /\ ~exited /\ quit_times = 0

\* a quit press on a dirty buffer, then F10: the counter still shows the press
C11_F10KeepsCount ==
    /\ last_key = "f10" /\ editor.dirty # 0 /\ ~exited
    /\ quit_times < MITER_QUIT_TIMES

\* one key typed with 10000 entries in the log: the log has 10001 entries and
\* room for 16384
C12_LogPastLimit ==
    /\ steps = 1 /\ Len(editor.undo_stack) = UNDO_MAX_ENTRIES + 1
    /\ editor.undo_stack_capacity > UNDO_MAX_ENTRIES

\* the log was trimmed and its oldest entry is from the middle of a group
C13_GroupCutByTrim ==
    /\ Len(editor.undo_stack) > 0
    /\ editor.undo_stack[1].g_seq = (editor.undo_stack_capacity \div 4) + 1
    /\ ~editor.undo_stack[1].g_first

\* another file was opened with two groups in the log, and the first edit of
\* the new buffer is logged under group 1 behind them
C14_OldEntriesBelowNewGroup ==
    /\ Len(editor.undo_stack) >= 2
    /\ editor.undo_stack[Len(editor.undo_stack)].group_id = 1
    /\ editor.undo_stack[Len(editor.undo_stack) - 1].group_id > 1
    /\ last_key \in {"char", "enter"}

\* a row was deleted and a row below it still carries the comment state it
\* had before
C15_StaleAfterDeleteRow ==
    /\ editor.syntax /\ ~editor.crashed /\ last_key = "delete_line"
    /\ Len(editor.row) < Len(hist.pre_rows)
    /\ \E i \in 1..Len(editor.row) : editor.open_comment[i] # OpenAfter(editor.row, i)

\* "//x" was uncommented to "x" and commented again: it reads "// x"
C16_SpaceAdded ==
    /\ steps = 2 /\ last_key = "toggle_line"
    /\ hist.rows0 = << <<"/", "/", "x">> >>
    /\ hist.pre_rows = << <<"x">> >>
    /\ editor.row = << <<"/", "/", " ", "x">> >>

\* "/*x*/" was unwrapped to "x" and wrapped again: it reads "/* x */"
C17_SpacesAdded ==
    /\ steps = 2 /\ last_key = "toggle_block"
    /\ hist.rows0 = << <<"/", "*", "x", "*", "/">> >>
    /\ hist.pre_rows = << <<"x">> >>
    /\ editor.row = << <<"/", "*", " ", "x", " ", "*", "/">> >>

\* the buffer " {", " " was selected, copied and pasted over itself: the row
\* after the brace took the indentation of the row before it and four more
C18_PasteIndentedAgain ==
    /\ steps = 3 /\ last_key = "paste"
    /\ hist.rows0 = << <<" ", "{">>, <<" ">> >>
    /\ hist.pre_rows = hist.rows0
    /\ clipboard_content = <<" ", "{", LF, " ">>
    /\ editor.row = << <<" ", "{">>, <<" ", " ", " ", " ", " ", " ">> >>

\* a row of one word of 85 characters was reflowed and joined: the word was
\* cut at the wrap column and comes back with a space after 80 characters
C19_LongWordSeparated ==
    /\ steps = 2 /\ last_key = "join"
    /\ hist.rows0 = << Rep("a", DEFAULT_WRAP_COLUMN + 5) >>
    /\ hist.pre_rows = << Rep("a", DEFAULT_WRAP_COLUMN), Rep("a", 5) >>
    /\ editor.row = << Rep("a", DEFAULT_WRAP_COLUMN) \o <<" ">> \o Rep("a", 5) >>


C21_ClickInsideTab ==
    /\ last_key = "shift_click"
    /\ editor.row = << <<"a", "\t", "b">> >>
    /\ editor.g_click_x = 7
    /\ editor.cursor_x = 1
    /\ editor_row_cursor_to_render(editor.row[1], 2) = 8

\* C22: the matcher ran with the cursor between the brackets of a block
\* comment that follows a line comment with an apostrophe, and recorded the
\* brackets
C22_BracketInsideComment ==
    /\ editor.g_bracket.ran
    /\ editor.g_bracket.rows = << <<"/", "/", "'">>, <<"/", "*", "(", ")", "*", "/">> >>
    /\ editor.g_bracket.cursor_y = 1
    /\ editor.g_bracket.cursor_x = 3
    /\ editor.bracket.open_row = 1 /\ editor.bracket.open_col = 2
    /\ editor.bracket.close_row = 1 /\ editor.bracket.close_col = 3
    /\ editor.bracket.open_len = 1

\* C23: Delete at the end of the last row moved the cursor below the last row
C23_CursorBelowLastRow ==
    /\ last_key = "delete"
    /\ SingleCursorNoSelection(hist.pre)
    /\ Len(hist.pre.row) > 0
    /\ hist.pre.cursor_y = Len(hist.pre.row) - 1
    /\ hist.pre.cursor_x = Len(hist.pre.row[Len(hist.pre.row)])
    /\ editor.row = hist.pre.row
    /\ editor.cursor_y = Len(editor.row)
    /\ editor.cursor_x = 0

\* C24: backspace at (0,0) of a buffer with rows and with entries in the
\* undo log
C24_BackspaceAtOrigin ==
    /\ last_key = "backspace"
    /\ SingleCursorNoSelection(hist.pre)
    /\ hist.pre.cursor_y = 0
    /\ hist.pre.cursor_x = 0
    /\ Len(hist.pre.row) > 0
    /\ Len(hist.pre.undo_stack) > 0

\* C25: a redo refused at the top of a history that holds entries
C25_RedoAtTop ==
    /\ last_key = "redo"
    /\ ~hist.pre.crashed
    /\ hist.pre.undo_position = hist.pre.undo_group_id
    /\ Len(hist.pre.undo_stack) > 0
    /\ editor.status_message = "Nothing to redo"

\* C26: cursors at (1,0) and (1,1) of rows "ab", "c" deleted the "c" and
\* merged the rows; the cursor that was after "c" is at (0,0), not (0,2)
C26_CursorNotShifted ==
    /\ last_key = "backspace"
    /\ hist.pre_rows = << <<"a", "b">>, <<"c">> >>
    /\ editor.row = << <<"a", "b">> >>
    /\ AllCursorSet(editor) = {Cur(0, 0), Cur(0, 2)}

\* C27: two cursors on row 1 of "ab", "c" and a duplication: three rows "c"
C27_DuplicatedTwice ==
    /\ last_key = "duplicate_line"
    /\ hist.pre_rows = << <<"a", "b">>, <<"c">> >>
    /\ editor.row = << <<"a", "b">>, <<"c">>, <<"c">>, <<"c">> >>
    /\ CursorLines(editor) = {3}

---------------------------------------------------------------------------
(* Movement keys and frozen secondary cursors *)

MovementKeys == {"arrow", "home", "end"}

\* C28: while cursors_follow_primary is false, a movement key (an arrow, Home,
\* End) leaves the position of every secondary cursor unchanged.
C28_FrozenCursorsStay ==
    [][(/\ steps' = steps + 1
        /\ last_key' \in MovementKeys
        /\ Len(editor.cursors) > 0
        /\ ~editor.cursors_follow_primary)
        => editor'.cursors = editor.cursors]_vars

\* End was pressed while the secondary cursors were frozen, and a secondary
\* cursor is no longer where it was
C28_EndMovedFrozenCursor ==
    /\ last_key = "end"
    /\ hist.pre # <<>>
    /\ ~hist.pre.cursors_follow_primary
    /\ Len(hist.pre.cursors) > 0
    /\ editor.cursors # hist.pre.cursors

---------------------------------------------------------------------------
(* Newline and automatic indentation *)

\* the leading run of spaces and tabs of a row
LeadingWhitespace(r) ==
    SubSeq(r, 1, Max({n \in 0..Len(r) : \A k \in 1..n : r[k] \in {" ", "\t"}}))

\* the last character of r[0..x) that is not whitespace is an opening brace
BraceBefore(r, x) ==
    \E k \in 1..x : /\ r[k] = "{"
                    /\ \A j \in (k + 1)..x : r[j] \in {" ", "\t"}

NewlineIndentation(r, x) ==
    LeadingWhitespace(r) \o (IF BraceBefore(r, x) THEN <<" ", " ", " ", " ">> ELSE <<>>)

\* C29: Enter with one cursor at (y, x) in row r and no selection leaves row y
\* equal to r[0..x) and row y+1 equal to the indentation followed by r[x..],
\* with the cursor at (y+1, length of the indentation); the indentation is
\* r's leading whitespace plus 4 spaces iff the last non-whitespace character
\* before the cursor is an opening brace.
C29_NewlineIndents ==
    (/\ last_key = "enter"
     /\ SingleCursorNoSelection(hist.pre)
     /\ InRows(hist.pre, hist.pre.cursor_y)
     /\ ~editor.crashed)
    => LET y == hist.pre.cursor_y
           x == hist.pre.cursor_x
           r == RowAt(hist.pre, y)
       IN /\ Len(editor.row) = Len(hist.pre.row) + 1
          /\ RowAt(editor, y) = Slice(r, 0, x)
          /\ RowAt(editor, y + 1) = NewlineIndentation(r, x) \o Slice(r, x, Len(r))
          /\ editor.cursor_y = y + 1
          /\ editor.cursor_x = Len(NewlineIndentation(r, x))

\* Enter was pressed at column 0 of a row that begins with an opening brace
C29_EnterBeforeBrace ==
    /\ last_key = "enter"
    /\ SingleCursorNoSelection(hist.pre)
    /\ hist.pre.cursor_x = 0
    /\ CharAt(RowAt(hist.pre, hist.pre.cursor_y), 0) = "{"
    /\ RowAt(editor, editor.cursor_y) = <<" ", " ", " ", " ", "{">>
    /\ editor.cursor_x = 4

---------------------------------------------------------------------------
(* Deleting the selection *)

\* the rows after the text between start and end is taken out: the head of
\* row start.row joined with the tail of row end.row, the rows in between gone
WithoutSelection(rows, start, end) ==
    LET RowOr(r) == IF r < Len(rows) THEN rows[r + 1] ELSE <<>>
    IN SubSeq(rows, 1, start.row)
       \o << Slice(RowOr(start.row), 0, start.col)
             \o Slice(RowOr(end.row), end.col, Len(RowOr(end.row))) >>
       \o SubSeq(rows, end.row + 2, Len(rows))

StrictSelection(E) ==
    /\ E.selection.active
    /\ selection_normalize(E)[1] # selection_normalize(E)[2]

\* C30: Backspace on an active selection with start < end, one cursor, appends
\* exactly one selection-delete entry to the undo log, joins the head of row
\* start.row with the tail of row end.row, removes the rows in between and
\* row end.row, keeps the other rows, puts the cursor at start and
\* deactivates the selection.
C30_SelectionDeleted ==
    [][(/\ steps' = steps + 1
        /\ last_key' = "backspace"
        /\ Len(editor.cursors) = 0
        /\ StrictSelection(editor))
        => LET start == selection_normalize(editor)[1]
               end == selection_normalize(editor)[2]
           IN /\ ~editor'.crashed
              /\ editor'.g_nlogs = editor.g_nlogs + 1
              /\ Len(editor'.undo_stack) > 0
              /\ editor'.undo_stack[Len(editor'.undo_stack)].op_type = UNDO_SELECTION_DELETE
              /\ editor'.row = WithoutSelection(editor.row, start, end)
              /\ editor'.cursor_y = start.row
              /\ editor'.cursor_x = start.col
              /\ ~editor'.selection.active]_vars

\* Backspace met a selection that ends on the line below the last row (where
\* Shift+Right at the end of the buffer puts the cursor)
C30_SelectionPastLastRow ==
    /\ last_key = "backspace"
    /\ Len(editor.cursors) = 0
    /\ StrictSelection(editor)
    /\ selection_normalize(editor)[2].row = Len(editor.row)
    /\ editor.crashed

---------------------------------------------------------------------------
(* The input decoder *)

\* the key code the table gives a complete sequence, "" for any other bytes
TableKey(s) ==
    LET Alt == [c \in AltLetters |->
                   CASE c \in {"t", "T"} -> "ALT_T" [] c \in {"l", "L"} -> "ALT_L"
                     [] c \in {"q", "Q"} -> "ALT_Q" [] c \in {"j", "J"} -> "ALT_J"
                     [] c \in {"s", "S"} -> "ALT_S" [] c \in {"r", "R"} -> "ALT_R"
                     [] c \in {"n", "N"} -> "ALT_N" [] c \in {"w", "W"} -> "ALT_W"
                     [] c \in {"c", "C"} -> "ALT_C" [] c \in {"v", "V"} -> "ALT_V"
                     [] c \in {"z", "Z"} -> "ALT_Z" [] OTHER -> "ALT_M"]
        Letter == [A |-> "ARROW_UP", B |-> "ARROW_DOWN", C |-> "ARROW_RIGHT",
                   D |-> "ARROW_LEFT", H |-> "HOME_KEY", F |-> "END_KEY", Z |-> "SHIFT_TAB"]
        Number == << "HOME_KEY", "", "DEL_KEY", "END_KEY", "PAGE_UP", "PAGE_DOWN",
                     "HOME_KEY", "END_KEY" >>
        Index(n) == CHOOSE k \in 1..8 :
                       n = <<"1", "2", "3", "4", "5", "6", "7", "8">>[k]
    IN CASE Len(s) = 2 /\ s[1] = ESC /\ s[2] \in AltLetters -> Alt[s[2]]
         [] s = <<ESC, "]">> -> "ALT_CLOSE_BRACKET"
         [] Len(s) = 3 /\ s[1] = ESC /\ s[2] = "[" /\ s[3] \in DOMAIN Letter -> Letter[s[3]]
         [] Len(s) = 3 /\ s[1] = ESC /\ s[2] = "O" /\ s[3] \in {"H", "F"} -> Letter[s[3]]
         [] Len(s) = 4 /\ s[1] = ESC /\ s[2] = "[" /\ s[4] = "~"
            /\ s[3] \in {"1", "3", "4", "5", "6", "7", "8"} -> Number[Index(s[3])]
         [] s = <<ESC, "[", "2", "1", "~">> -> "F10_KEY"
         [] s = <<ESC, "[", "3", ";", "5", "~">> -> "CTRL_DELETE"
         [] OTHER -> ""

\* C31: editor_read_key returns a bare ESC when no byte follows ESC, the
\* Alt-[ key for ESC [ alone, and for every complete sequence of the table
\* (whatever follows it) the key code the table gives.
C31_DecoderTable ==
    [][steps' = steps + 1
        => /\ stdin = <<ESC>> => keycode' = CHAR_ESCAPE
           /\ stdin = <<ESC, "[">> => keycode' = "ALT_OPEN_BRACKET"
           /\ \A n \in 1..Len(stdin) :
                 TableKey(SubSeq(stdin, 1, n)) # ""
                    => keycode' = TableKey(SubSeq(stdin, 1, n))]_vars

\* ESC [ 7 ~ was decoded as Home with the byte after it left unread
C31_HomeDecoded ==
    /\ hist.read = <<ESC, "[", "7", "~">>
    /\ keycode = "HOME_KEY"
    /\ stdin = <<"a">>

\* the key code of arrow or Home/End letter k with modifier m
ModifiedKey(m, k) ==
    LET Base == [A |-> "ARROW_UP", B |-> "ARROW_DOWN", C |-> "ARROW_RIGHT",
                 D |-> "ARROW_LEFT", H |-> "HOME", F |-> "END"]
        Short == [A |-> "UP", B |-> "DOWN", C |-> "RIGHT", D |-> "LEFT",
                  H |-> "HOME", F |-> "END"]
    IN CASE m = "2" -> <<"SHIFT", Base[k]>>
         [] m = "3" -> <<"ALT", Short[k]>>
         [] m = "4" -> <<"ALT_SHIFT", Short[k]>>
         [] OTHER -> <<"CTRL", Base[k]>>

\* the enum's name split at the modifier
KeyName(code) ==
    CASE code = "SHIFT_ARROW_UP" -> <<"SHIFT", "ARROW_UP">>
      [] code = "SHIFT_ARROW_DOWN" -> <<"SHIFT", "ARROW_DOWN">>
      [] code = "SHIFT_ARROW_RIGHT" -> <<"SHIFT", "ARROW_RIGHT">>
      [] code = "SHIFT_ARROW_LEFT" -> <<"SHIFT", "ARROW_LEFT">>
      [] code = "SHIFT_HOME" -> <<"SHIFT", "HOME">>
      [] code = "SHIFT_END" -> <<"SHIFT", "END">>
      [] code = "ALT_UP" -> <<"ALT", "UP">>
      [] code = "ALT_DOWN" -> <<"ALT", "DOWN">>
      [] code = "ALT_SHIFT_UP" -> <<"ALT_SHIFT", "UP">>
      [] code = "ALT_SHIFT_DOWN" -> <<"ALT_SHIFT", "DOWN">>
      [] code = "CTRL_ARROW_RIGHT" -> <<"CTRL", "ARROW_RIGHT">>
      [] code = "CTRL_ARROW_LEFT" -> <<"CTRL", "ARROW_LEFT">>
      [] OTHER -> <<"", code>>

\* C32: for every sequence ESC [ 1 ; m k with m in 2..5 and k one of
\* A B C D H F, editor_read_key returns the key code of that key with that
\* modifier, never a bare ESC.
C32_ModifiedKeys ==
    [][(/\ steps' = steps + 1
        /\ Len(stdin) >= 6
        /\ SubSeq(stdin, 1, 4) = <<ESC, "[", "1", ";">>
        /\ stdin[5] \in {"2", "3", "4", "5"}
        /\ stdin[6] \in {"A", "B", "C", "D", "H", "F"})
        => /\ keycode' # CHAR_ESCAPE
           /\ KeyName(keycode') = ModifiedKey(stdin[5], stdin[6])]_vars

\* a modified key was read to its last byte and came back as a bare ESC
C32_ModifiedKeyAsEscape ==
    /\ hist.read = <<ESC, "[", "1", ";", "5", "A">>
    /\ keycode = CHAR_ESCAPE
    /\ stdin = <<"a">>

\* the bytes of the escape sequence at the head of the input: ESC [ with
\* its parameter bytes and its final byte, ESC O and one byte, ESC and one
\* byte
SequenceLength(in) ==
    LET RECURSIVE Params(_)
        Params(n) == IF n <= Len(in) /\ in[n] \in Digits \cup {";", "<"}
                     THEN Params(n + 1) ELSE n
    IN IF Len(in) >= 2 /\ in[2] = "[" THEN Params(3)
       ELSE IF Len(in) >= 2 /\ in[2] = "O" THEN 3
       ELSE 2

\* C39: the call of editor_read_key that reads the ESC of a complete escape
\* sequence consumes every byte of it, so none is read later as text.
C39_SequenceConsumed ==
    [][(/\ steps' = steps + 1
        /\ stdin # <<>>
        /\ Head(stdin) = ESC
        /\ Len(stdin) >= SequenceLength(stdin))
        => Len(stdin') <= Len(stdin) - SequenceLength(stdin)]_vars

\* the last byte of ESC [ 1 5 ~ was inserted into the buffer as text
C39_TildeInserted ==
    /\ last_key = "char"
    /\ keycode = "~"
    /\ hist.ch = "~"
    /\ hist.budget = MaxInputSteps
    /\ editor.cursor_x > 0
    /\ CharAt(RowAt(editor, editor.cursor_y), editor.cursor_x - 1) = "~"

---------------------------------------------------------------------------
(* The resize signal *)

\* C33: no resize is lost: every delivery of SIGWINCH is eventually followed
\* by a run of editor_handle_resize that starts after it, wherever the
\* program was when the signal arrived
C33_NoResizeLost == hist.unhandled ~> ~hist.unhandled

\* the signal arrived while the prompt of editor_find was reading keys
C33_SignalDuringPrompt ==
    /\ pc = "prompt" /\ keycode = "-1"
    /\ hist.unhandled /\ window_resize_pending = 1
    /\ stdin = <<>> /\ hist.keys = <<>>

---------------------------------------------------------------------------
(* Incremental search *)

\* the prompt of editor_find is open and the results are those of the text
\* typed so far
Searching(E, at) ==
    at = "prompt" /\ E.find.last_query # NULLSTR /\ Len(E.search_results) > 0

CurrentResult(E) == E.search_results[E.find.current_result_index + 1]

\* the cursor is on the character of its row that is drawn at the first
\* render column of the result
CursorOnResult(E, result) ==
    /\ E.cursor_y = result.line_number
    /\ E.cursor_x < Len(E.row[result.line_number + 1])
    /\ editor_row_cursor_to_render(E.row[result.line_number + 1], E.cursor_x)
          <= result.match_offset
    /\ result.match_offset
          < editor_row_cursor_to_render(E.row[result.line_number + 1], E.cursor_x + 1)

\* C34: while a search has results the current index is one of them and the
\* cursor is on that result; the next-match key at the last result selects
\* result 0 and the previous-match key at result 0 the last one; when the
\* prompt has ended no row keeps the match highlight
C34_IncrementalSearch ==
    [][/\ Searching(editor', pc') =>
            /\ editor'.find.current_result_index \in 0..(Len(editor'.search_results) - 1)
            /\ CursorOnResult(editor', CurrentResult(editor'))
       /\ (/\ Searching(editor, pc)
           /\ pc' = "prompt"
           /\ keycode' \in {"ARROW_RIGHT", "ARROW_DOWN"}
           /\ editor.find.current_result_index = Len(editor.search_results) - 1)
          => editor'.find.current_result_index = 0
       /\ (/\ Searching(editor, pc)
           /\ pc' = "prompt"
           /\ keycode' \in {"ARROW_LEFT", "ARROW_UP"}
           /\ editor.find.current_result_index = 0)
          => editor'.find.current_result_index = Len(editor.search_results) - 1
       /\ pc' = "loop" => editor'.hl_match = {}
      ]_vars

\* the next-match key was pressed at the last of several results
C34_WrappedToFirst ==
    /\ pc = "prompt" /\ keycode = "ARROW_RIGHT"
    /\ Len(editor.search_results) > 1
    /\ hist.pre.find.last_query = editor.find.last_query
    /\ hist.pre.find.current_result_index = Len(editor.search_results) - 1
    /\ editor.find.current_result_index = 0
    /\ editor.hl_match # {}

---------------------------------------------------------------------------
(* The selection while lines are edited *)

\* a buffer position: an existing row and a column up to its length
InBuffer(E, pos) ==
    pos.row >= 0 /\ pos.row < Len(E.row) /\ pos.col >= 0 /\ pos.col <= LineSize(E, pos.row)

\* C35: whenever a selection is active its anchor and its cursor endpoint
\* are buffer positions, whatever was done to the rows while it was active
C35_ActiveSelectionInBuffer ==
    editor.selection.active =>
        InBuffer(editor, editor.selection.anchor) /\ InBuffer(editor, editor.selection.cursor)

\* a line was deleted under an active selection, and an endpoint that was in
\* the buffer before is past the end of its row or of the buffer now
C35_StaleAfterDeleteLine ==
    /\ last_key = "delete_line"
    /\ editor.selection.active
    /\ Len(hist.pre_rows) = Len(editor.row) + 1
    /\ \A pos \in {editor.selection.anchor, editor.selection.cursor} :
           pos.row < Len(hist.pre_rows) /\ pos.col <= Len(hist.pre_rows[pos.row + 1])
    /\ ~InBuffer(editor, editor.selection.cursor)

---------------------------------------------------------------------------
(* The primary cursor among the secondaries *)

SecondaryAtPrimary(E) ==
    \E i \in 1..Len(E.cursors) :
        E.cursors[i].line = E.cursor_y /\ E.cursors[i].column = E.cursor_x

\* C36: between two keys of the loop of main no secondary cursor is at the
\* position of the primary unless allow_primary_overlap is set, also after
\* a search has moved the primary
C36_PrimaryAlone ==
    (pc = "loop" /\ ~editor.allow_primary_overlap) => ~SecondaryAtPrimary(editor)

\* Enter ended a search whose result is where a secondary cursor stands
C36_SearchJumpOntoSecondary ==
    /\ pc = "loop" /\ last_key = "find" /\ keycode = CR
    /\ ~editor.allow_primary_overlap
    /\ editor.prompt.result = editor.prompt.buffer
    /\ \E i \in 1..Len(editor.search_results) :
           CursorOnResult(editor, editor.search_results[i])
    /\ SecondaryAtPrimary(editor)

---------------------------------------------------------------------------
(* Undo groups and their entries *)

GroupIds(E) == {E.undo_stack[i].group_id : i \in 1..Len(E.undo_stack)}

\* C37: no undo group is empty: every group id from that of the oldest
\* entry up to undo_group_id is the group id of some entry of the log
C37_NoEmptyGroup ==
    editor.undo_stack # <<>> =>
        \A g \in (editor.undo_stack[1].group_id)..(editor.undo_group_id) :
            g \in GroupIds(editor)

\* Enter with secondary cursors: the group the batch opened for itself has
\* no entry, every row split went to a group of its own
C37_BatchGroupEmpty ==
    /\ last_key = "enter" /\ hist.batch
    /\ Len(editor.cursors) > 0
    /\ editor.undo_stack # <<>>
    /\ \E g \in (editor.undo_stack[1].group_id)..(editor.undo_group_id) :
           /\ g \notin GroupIds(editor)
           /\ g + 1 \in GroupIds(editor)
           /\ editor.undo_stack[Len(editor.undo_stack)].op_type = UNDO_ROW_SPLIT

---------------------------------------------------------------------------
(* The Delete key with several cursors *)

\* every cursor has a character of its row to its right
AllHaveRight(E) ==
    \A c \in AllCursors(E) : c.line < Len(E.row) /\ c.column < LineSize(E, c.line)

\* row y of E without the character to the right of each cursor on it
WithoutRight(E, y) ==
    LET kept == {k \in 1..Len(E.row[y + 1]) : Cur(y, k - 1) \notin AllCursors(E)}
        RECURSIVE Keep(_, _)
        Keep(k, out) ==
            IF k > Len(E.row[y + 1]) THEN out
            ELSE Keep(k + 1, IF k \in kept THEN Append(out, E.row[y + 1][k]) ELSE out)
    IN Keep(1, <<>>)

\* where a cursor stands when the characters right of it and of the cursors
\* before it on its row are gone
BeforeRemoved(E, c) ==
    Cur(c.line, c.column - Cardinality({d \in AllCursors(E) :
                                           d.line = c.line /\ d.column < c.column}))

\* C38: with secondary cursors the Delete key removes the character to the
\* right of every cursor and leaves every cursor before the text that
\* followed it
C38_DeleteRemovesRight ==
    (/\ last_key = "delete"
     /\ Len(hist.pre.cursors) > 0
     /\ AllHaveRight(hist.pre))
    => /\ editor.row = [y \in 1..Len(hist.pre.row) |-> WithoutRight(hist.pre, y - 1)]
       /\ AllCursors(editor) = {BeforeRemoved(hist.pre, c) : c \in AllCursors(hist.pre)}

\* Delete with a secondary cursor in the middle of "ab": the "a" to its left
\* is gone and the "b" to its right is still there
C38_SecondaryRemovedLeft ==
    /\ last_key = "delete"
    /\ hist.pre.row = << <<"a", "b">>, <<"c">> >>
    /\ hist.pre.cursors = <<Cur(0, 1)>>
    /\ hist.pre.cursor_y = 1 /\ hist.pre.cursor_x = 0
    /\ editor.row = << <<"b">>, <<>> >>

---------------------------------------------------------------------------
(* The room for wrap breaks *)

\* C40: a calculation with a width of at least 1 writes no more breaks than
\* the render_size / available_width + 2 it allocated room for
C40_BreaksWithinCapacity ==
    \A y \in 1..Len(editor.wrap) :
        editor.wrap[y].g_width >= 1 =>
            LET Within(res) == Len(res.breaks) <= res.allocated
            IN Within(editor_calculate_wrap_breaks(editor.wrap[y].g_render,
                                                   editor.wrap[y].g_width))

\* ten one-letter words at width 3: nine breaks for eight allocated entries
C40_NineBreaksForEight ==
    \E y \in 1..Len(editor.wrap) :
        /\ editor.wrap[y].g_width = 3
        /\ Len(editor.wrap[y].g_render) = 20
        /\ LET Counts(res) == Len(res.breaks) = 9 /\ res.allocated = 8
           IN Counts(editor_calculate_wrap_breaks(editor.wrap[y].g_render, 3))

====
